---- MODULE Spec2Model ----
(***************************************************************************)
(* Verification model of the systematic trading platform core:             *)
(*   - execution scheduler   (src/src/core/execution_handler.py)           *)
(*   - portfolio safety rails (src/src/core/portfolio_manager.py)          *)
(*   - bitemporal data platform (src/src/core/data_platform.py)            *)
(* Each subsystem has its own specification (SpecExec, SpecPM, SpecDP);    *)
(* the variables of the other subsystems stay at their initial value.      *)
(***************************************************************************)
EXTENDS Integers, Naturals, Sequences, FiniteSets, TLC

(***************************************************************************)
(* Bounds of the model.                                                    *)
(***************************************************************************)
MaxOrders == 1      \* parent orders created by vwap_execute
MaxSlices == 2      \* largest slices argument of vwap_execute
MaxTime == 2        \* the wall clock runs over 0..MaxTime
MaxCalls == 4       \* check_safety calls in one behaviour
TicksPerSecond == 2 \* clock ticks in one second
MaxBars == 3        \* rows of the bars table
MaxCA == 2          \* rows of the corporate action table
MaxSecs == 2        \* rows of the security master
MaxEvents == 2      \* rows of the events table
MaxDepth == 4       \* nested _hydrate_features calls before RecursionError
MantissaBits == 5   \* bits of the significand of a float quantity
MaxNest == 2        \* nested alpha_context scopes of one thread
MaxMaps == 2        \* maps in the signals_list of one combine call

(***************************************************************************)
(* Program constants.                                                      *)
(***************************************************************************)
InitialEquity == 100   \* peak_equity = current_equity = 1.0
DefaultMaxMsgs == 10   \* max_msgs = 10
DefaultMaxDD == -10    \* max_dd = -0.1
FirstId == 1000        \* _id_counter of an empty security master
DefaultStart == -10    \* datetime(1900, 1, 1), before every instant of the model
DefaultEnd == 100      \* datetime(2200, 1, 1), after every instant of the model
DefaultSlices == 5     \* vwap_execute's default slices
TradeTolerance == 2    \* rebalance's trade_tolerance = 0.1, in units of 0.05 share
LookbackDays == 30     \* ModelRunConfig.lookback_days, longer than the model's clock
One == 16              \* the float 1.0 of the signal combiner, in sixteenths

VARIABLES
    now,          \* time.time() / datetime.now(), in ticks
    \* ---- execution scheduler ----
    orders,       \* ExecutionHandler.orders: sequence of Order records
    queue,        \* ExecutionHandler._queue: sequence of _ChildOrder records
    wpc,          \* position of the worker thread in _execution_loop
    wnow,         \* the worker's local `now`
    to_fire,      \* the worker's local batch
    success,      \* the worker's local `success`
    dpc,          \* position of the driver thread ("idle" or inside cancel_order)
    dorder,       \* cancel_order's local `order` (index into orders, 0 = None)
    cancel_ret,   \* last value returned by cancel_order, per order ("none" before)
    subs,         \* history: backend.submit_order calls per parent order
    leak,         \* history: submit calls made while the parent was terminal,
                  \*          since the parent was last ACTIVE
    subs_after_cancel, \* history: submit calls made after cancel_order returned true
    check_state,  \* history: parent state seen by the is_active check of the
                  \*          child being submitted
    rejected,     \* history: per parent order, whether backend.submit_order
                  \*          has returned false for one of its children
    nslices,      \* history: per parent order, the slices argument of its
                  \*          vwap_execute call
    \* ---- portfolio manager safety rails ----
    killed,       \* PortfolioManager.killed
    peak_equity,  \* PortfolioManager.peak_equity, in hundredths of the initial equity
    current_equity, \* PortfolioManager.current_equity, same unit
    msg_count,    \* PortfolioManager.msg_count
    last_msg_ts,  \* PortfolioManager.last_msg_ts, in ticks
    max_msgs,     \* PortfolioManager.max_msgs
    max_dd,       \* PortfolioManager.max_dd, in percent
    pm_ret,       \* value returned by the last check_safety call ("none" before)
    pm_arg,       \* history: equity argument of the last check_safety call
    pm_killed_at_entry, \* history: killed when the last check_safety call began
    pm_calls,     \* history: number of check_safety calls made
    pm_true,      \* history: time and limit of each check_safety call that returned true
    \* ---- data platform ----
    bars,         \* the "bars" table of the library: a bag of Bar rows
    ca_df,        \* DataPlatform.meta["ca_df"]: set of CorporateAction rows
    last_query,   \* the last get_bars call: its arguments and the frame returned
    \* ---- security master of the data platform ----
    sec_df,       \* DataPlatform.meta["sec_df"]: sequence of Security rows
    id_counter,   \* DataPlatform._id_counter
    minted,       \* history: the ids taken from _id_counter so far
    sm_ret,       \* the last register_security / get_internal_id call and its result
    \* ---- events of the data platform ----
    events,       \* the "events" table of the library: a bag of Event rows
    ev_ret,       \* what the last call returned: the events of a get_events call
    \* ---- feature hydration of the alpha engine ----
    FEATURE_DEPS, \* the registry FEATURE_DEPS; its domain is the registry FEATURES
    h_pc,         \* "idle", "running", "done" or "error" (RecursionError)
    h_stack,      \* the frames of the nested _hydrate_features calls
    h_seen,       \* the set `seen` shared by the nested calls
    h_cols,       \* the feature columns written to df
    h_log,        \* history: the compute invocations, each with the columns
                  \*          written before it
    \* ---- execution context of the alpha engine ----
    ctx,          \* per thread: its values of _context_data and _context_as_of
    tokens,       \* per thread: the tokens (t1, t2) of its open alpha_context scopes
    scopes,       \* per thread: the (data, timestamp) arguments of its open scopes
    c_read,       \* per thread: what its last context_as_of read returned
    c_ev,         \* per thread: the outcome of its last AlphaModel.get_events call
    c_exit,       \* per thread: how it left its last scope ("return" or "error")
    c_run,        \* per thread: the run_model call in progress and its frame `latest`
    \* ---- portfolio optimizer ----
    current_weights, \* PortfolioManager.current_weights: set of <<id, weight>>
    sigma_n,      \* the dimension N of the cached PortfolioManager.sigma (None if unset)
    opt_ret,       \* the last optimize call: its arguments, path and return value
    \* ---- rebalance of the execution scheduler ----
    reb,           \* the rebalance call of the driver: its position, arguments,
                  \* locals and, as history, what it saw and created
    \* ---- write-side aggregation of the data platform ----
    aggregate_to,   \* DataPlatform.aggregate_to: the timeframes add_bars aggregates to
    \* ---- signal combiner of the alpha engine ----
    cb_ret,         \* the last SignalCombiner.combine call: its arguments and return value
    \* ---- scheduler lock ----
    lock,         \* ExecutionHandler._lock: "none", or the thread that holds it
    vpc,          \* driver's position inside vwap_execute
    venq,          \* children built by vwap_execute, not yet in the queue
    \* ---- add_bars called from two threads ----
    wr_pc,        \* each thread's position inside _write_ts
    wr_cur,       \* current_data as each thread read it
    wr_df,        \* the rows each thread is writing
    wr_done,       \* the bars of the add_bars calls that have returned
    \* ---- backtest engine ----
    bt_status     \* BacktestEngine.status

execVars == <<orders, queue, wpc, wnow, to_fire, success, dpc, dorder,
              cancel_ret, subs, leak, subs_after_cancel, check_state,
              rejected, nslices>>

pmVars == <<killed, peak_equity, current_equity, msg_count, last_msg_ts,
            max_msgs, max_dd, pm_ret, pm_arg, pm_killed_at_entry, pm_calls,
            pm_true>>

dpVars == <<bars, ca_df, last_query>>

smVars == <<sec_df, id_counter, minted, sm_ret>>

evVars == <<events, ev_ret>>

hyVars == <<FEATURE_DEPS, h_pc, h_stack, h_seen, h_cols, h_log>>

cxVars == <<ctx, tokens, scopes, c_read, c_ev, c_exit, c_run>>

opVars == <<current_weights, sigma_n, opt_ret>>


rbVars == <<reb>>

agVars == <<aggregate_to>>

cbVars == <<cb_ret>>

lkVars == <<lock, vpc, venq>>

wrVars == <<wr_pc, wr_cur, wr_df, wr_done>>

btVars == <<bt_status>>

vars == <<now, execVars, pmVars, dpVars, smVars, evVars, hyVars, cxVars, opVars, rbVars, agVars, cbVars, lkVars, wrVars, btVars>>

(***************************************************************************)
(* Execution scheduler: src/src/core/execution_handler.py                  *)
(***************************************************************************)
OrderState == {"PENDING", "SUBMITTED", "PARTIAL", "FILLED", "CANCELLED", "REJECTED"}

\* OrderState.is_active
is_active(s) == s \in {"PENDING", "SUBMITTED", "PARTIAL"}

Terminal(s) == s \in {"FILLED", "CANCELLED", "REJECTED"}

Tickers == {"AAPL"}
Sides == {"BUY"}
\* interval argument of vwap_execute, in clock ticks
Intervals == {0, 1}
\* quantity of one slice: the total quantities of the general scheduler
\* model are its multiples q * slices, which divide without rounding
SliceQtys == {1}

\* Quantities are floats. The model keeps the rounding of float arithmetic at
\* a reduced width: a float is a natural number of units with a significand
\* of MantissaBits bits, and every operation rounds its exact result to the
\* nearest float, ties to the even significand.
RECURSIVE Ulp(_, _, _)
\* the spacing of the floats around num / den, searched upwards from u
Ulp(num, den, u) ==
    IF num < den * u * (2 ^ MantissaBits) THEN u ELSE Ulp(num, den, 2 * u)

\* the float nearest to num / den
FRound(num, den) ==
    LET u == Ulp(num, den, 1)
        m == num \div (den * u)
        rem == num - m * den * u
    IN IF 2 * rem > den * u \/ (2 * rem = den * u /\ m % 2 = 1)
       THEN (m + 1) * u
       ELSE m * u

\* total_qty / slices
FDiv(a, n) == FRound(a, n)

\* self.filled_qty += fill_qty
FAdd(a, b) == FRound(a + b, 1)

\* [c for c in self._queue if c.scheduled_at <= now]
DueChildren(q, t) == SelectSeq(q, LAMBDA c : c.scheduled_at <= t)

\* [c for c in self._queue if c.scheduled_at > now]
LaterChildren(q, t) == SelectSeq(q, LAMBDA c : c.scheduled_at > t)

\* insertion of child c into a queue sorted by scheduled_at, after its equals
\* (list.sort is stable)
RECURSIVE InsertSorted(_, _)
InsertSorted(q, c) ==
    IF q = <<>> THEN <<c>>
    ELSE IF Head(q).scheduled_at <= c.scheduled_at
         THEN <<Head(q)>> \o InsertSorted(Tail(q), c)
         ELSE <<c>> \o q

RECURSIVE SortQueue(_)
\* self._queue.sort(key=lambda x: x.scheduled_at)
SortQueue(q) == IF q = <<>> THEN <<>>
                ELSE InsertSorted(SortQueue(SubSeq(q, 1, Len(q) - 1)), q[Len(q)])

\* get_order: index of the first order with this order_id, 0 for None
GetOrder(order_id) ==
    IF \E i \in 1..Len(orders) : orders[i].order_id = order_id
    THEN CHOOSE i \in 1..Len(orders) :
            /\ orders[i].order_id = order_id
            /\ \A j \in 1..(i - 1) : orders[j].order_id # order_id
    ELSE 0

\* Order.update: the new state after filled_qty was increased
UpdateState(o) == IF o.filled_qty >= o.quantity THEN "FILLED" ELSE "PARTIAL"

\* history bookkeeping shared by every step that writes an order state
LeakAfter(newOrders, newLeak) ==
    [i \in 1..Len(newOrders) |->
        IF is_active(newOrders[i].state) THEN 0 ELSE newLeak[i]]

otherThanExec == <<pmVars, dpVars, smVars, evVars, hyVars, cxVars, opVars, rbVars, agVars, cbVars, lkVars, wrVars, btVars>>

ExecInit ==
    /\ orders = <<>>
    /\ queue = <<>>
    /\ wpc = "loop"
    /\ wnow = 0
    /\ to_fire = <<>>
    /\ success = FALSE
    /\ dpc = "idle"
    /\ dorder = 0
    /\ cancel_ret = <<>>
    /\ subs = <<>>
    /\ leak = <<>>
    /\ subs_after_cancel = <<>>
    /\ check_state = "none"
    /\ rejected = <<>>
    /\ nslices = <<>>

\* time passes
Tick ==
    /\ now < MaxTime
    /\ now' = now + 1
    /\ UNCHANGED <<execVars, pmVars, dpVars, smVars, evVars, hyVars, cxVars, opVars, rbVars, agVars, cbVars, lkVars, wrVars, btVars>>

\* vwap_execute lines 123-125: the parent order, SUBMITTED
NewOrder(oid, ticker, total_qty, side) ==
    [order_id |-> oid, ticker |-> ticker, quantity |-> total_qty, filled_qty |-> 0,
     side |-> side, state |-> "SUBMITTED"]

\* vwap_execute lines 127-139: the children, qty_per_slice = total_qty / slices
NewChildren(oid, total_qty, slices, interval, t) ==
    [i \in 1..slices |->
        [parent |-> oid, quantity |-> FDiv(total_qty, slices),
         scheduled_at |-> t + (i - 1) * interval]]

\* vwap_execute(ticker, total_qty, side, slices, interval), driver thread
VwapExecute(ticker, total_qty, side, slices, interval) ==
    /\ dpc = "idle"
    /\ Len(orders) < MaxOrders
    /\ LET oid == Len(orders) + 1
           order == NewOrder(oid, ticker, total_qty, side)
           children == NewChildren(oid, total_qty, slices, interval, now)
       IN /\ orders' = Append(orders, order)
          /\ queue' = SortQueue(queue \o children)
          /\ cancel_ret' = Append(cancel_ret, "none")
          /\ subs' = Append(subs, 0)
          /\ leak' = Append(leak, 0)
          /\ subs_after_cancel' = Append(subs_after_cancel, 0)
          /\ rejected' = Append(rejected, FALSE)
          /\ nslices' = Append(nslices, slices)
    /\ UNCHANGED <<now, wpc, wnow, to_fire, success, dpc, dorder, check_state>>
    /\ UNCHANGED otherThanExec

\* _execution_loop line 88: now = time.time()
WorkerReadNow ==
    /\ wpc = "loop"
    /\ wnow' = now
    /\ wpc' = "partition"
    /\ UNCHANGED <<rejected, nslices, orders, queue, now, to_fire, success, dpc, dorder,
                   cancel_ret, subs, leak, subs_after_cancel, check_state>>
    /\ UNCHANGED otherThanExec

\* _execution_loop lines 89-91: partition of the queue under the lock
WorkerPartition ==
    /\ wpc = "partition"
    /\ to_fire' = DueChildren(queue, wnow)
    /\ queue' = LaterChildren(queue, wnow)
    /\ wpc' = "check"
    /\ UNCHANGED <<rejected, nslices, orders, now, wnow, success, dpc, dorder,
                   cancel_ret, subs, leak, subs_after_cancel, check_state>>
    /\ UNCHANGED otherThanExec

\* the guard of line 94 as the worker evaluates it
WorkerSeesActiveBug(child) == TRUE
WorkerSeesActive(child) == is_active(orders[child.parent].state)

\* _execution_loop lines 93-95: next child of the batch, is_active check
WorkerCheck ==
    /\ wpc = "check"
    /\ to_fire # <<>>
    /\ IF WorkerSeesActive(Head(to_fire))
       THEN /\ wpc' = "submit"
            /\ check_state' = orders[Head(to_fire).parent].state
            /\ UNCHANGED to_fire
       ELSE /\ to_fire' = Tail(to_fire)      \* continue
            /\ UNCHANGED <<rejected, nslices, wpc, check_state>>
    /\ UNCHANGED <<rejected, nslices, orders, queue, now, wnow, success, dpc, dorder,
                   cancel_ret, subs, leak, subs_after_cancel>>
    /\ UNCHANGED otherThanExec

\* _execution_loop lines 97-99: backend.submit_order(...) returns ok
WorkerSubmit(ok) ==
    /\ wpc = "submit"
    /\ LET p == Head(to_fire).parent
       IN /\ subs' = [subs EXCEPT ![p] = @ + 1]
          /\ leak' = [leak EXCEPT ![p] =
                         IF Terminal(orders[p].state) THEN @ + 1 ELSE @]
          /\ subs_after_cancel' = [subs_after_cancel EXCEPT ![p] =
                         IF cancel_ret[p] = "true" THEN @ + 1 ELSE @]
          /\ rejected' = [rejected EXCEPT ![p] = @ \/ ~ok]
    /\ success' = ok
    /\ wpc' = IF ok THEN "update_fill" ELSE "reject"
    /\ UNCHANGED <<nslices, orders, queue, now, wnow, to_fire, dpc, dorder,
                   cancel_ret, check_state>>
    /\ UNCHANGED otherThanExec

\* Order.update line 45: self.filled_qty += fill_qty
WorkerUpdateFill ==
    /\ wpc = "update_fill"
    /\ LET c == Head(to_fire)
       IN orders' = [orders EXCEPT ![c.parent].filled_qty = FAdd(@, c.quantity)]
    /\ wpc' = "update_state"
    /\ UNCHANGED <<rejected, nslices, queue, now, wnow, to_fire, success, dpc, dorder,
                   cancel_ret, subs, leak, subs_after_cancel, check_state>>
    /\ UNCHANGED otherThanExec

\* Order.update lines 46-50: self.state = FILLED if filled_qty >= quantity else PARTIAL
WorkerUpdateState ==
    /\ wpc = "update_state"
    /\ LET p == Head(to_fire).parent
       IN orders' = [orders EXCEPT ![p].state = UpdateState(orders[p])]
    /\ leak' = LeakAfter(orders', leak)
    /\ to_fire' = Tail(to_fire)
    /\ wpc' = "check"
    /\ check_state' = "none"
    /\ UNCHANGED <<rejected, nslices, queue, now, wnow, success, dpc, dorder,
                   cancel_ret, subs, subs_after_cancel>>
    /\ UNCHANGED otherThanExec

\* child.parent.state = OrderState.REJECTED
RejectKeepsState(o) == o
Reject(o) == [o EXCEPT !.state = "REJECTED"]

\* _execution_loop line 103: the write of REJECTED after a refused submission
WorkerReject ==
    /\ wpc = "reject"
    /\ LET p == Head(to_fire).parent
       IN orders' = [orders EXCEPT ![p] = Reject(@)]
    /\ leak' = LeakAfter(orders', leak)
    /\ to_fire' = Tail(to_fire)
    /\ wpc' = "check"
    /\ check_state' = "none"
    /\ UNCHANGED <<rejected, nslices, queue, now, wnow, success, dpc, dorder,
                   cancel_ret, subs, subs_after_cancel>>
    /\ UNCHANGED otherThanExec

\* _execution_loop line 105: the batch is done, time.sleep(0.1), next iteration
WorkerSleep ==
    /\ wpc = "check"
    /\ to_fire = <<>>
    /\ wpc' = "loop"
    /\ UNCHANGED <<rejected, nslices, orders, queue, now, wnow, to_fire, success, dpc, dorder,
                   cancel_ret, subs, leak, subs_after_cancel, check_state>>
    /\ UNCHANGED otherThanExec

\* cancel_order lines 185-186 and 189: lookup and is_active check
CancelCheck(order_id) ==
    /\ dpc = "idle"
    /\ LET i == GetOrder(order_id)
       IN IF i # 0 /\ is_active(orders[i].state)
          THEN /\ dpc' = "cancel_write"
               /\ dorder' = i
               /\ UNCHANGED cancel_ret
          ELSE /\ cancel_ret' = IF i = 0 THEN cancel_ret
                                ELSE [cancel_ret EXCEPT ![i] =
                                        IF @ = "true" THEN @ ELSE "false"]
               /\ UNCHANGED <<rejected, nslices, dpc, dorder>>
    /\ UNCHANGED <<rejected, nslices, orders, queue, now, wpc, wnow, to_fire, success,
                   subs, leak, subs_after_cancel, check_state>>
    /\ UNCHANGED otherThanExec

\* cancel_order lines 187-188: order.state = CANCELLED; return True
CancelWrite ==
    /\ dpc = "cancel_write"
    /\ orders' = [orders EXCEPT ![dorder].state = "CANCELLED"]
    /\ leak' = LeakAfter(orders', leak)
    /\ cancel_ret' = [cancel_ret EXCEPT ![dorder] = "true"]
    /\ dpc' = "idle"
    /\ dorder' = 0
    /\ UNCHANGED <<rejected, nslices, queue, now, wpc, wnow, to_fire, success,
                   subs, subs_after_cancel, check_state>>
    /\ UNCHANGED otherThanExec

ExecNext ==
    \/ Tick
    \/ \E t \in Tickers, q \in SliceQtys, s \in Sides, n \in 2..MaxSlices, iv \in Intervals :
          VwapExecute(t, q * n, s, n, iv)
    \/ WorkerReadNow
    \/ WorkerPartition
    \/ WorkerCheck
    \/ \E ok \in BOOLEAN : WorkerSubmit(ok)
    \/ WorkerUpdateFill
    \/ WorkerUpdateState
    \/ WorkerReject
    \/ WorkerSleep
    \/ \E oid \in 1..MaxOrders : CancelCheck(oid)
    \/ CancelWrite


\* Full execution: the broker accepts every submission, nobody cancels, and
\* the clock reaches the scheduled time of every child.
FillQtys == {192, 200, 232}
FillSlices == {1, 2, 3}

FillWorker ==
    \/ WorkerReadNow
    \/ WorkerPartition
    \/ WorkerCheck
    \/ WorkerSubmit(TRUE)
    \/ WorkerUpdateFill
    \/ WorkerUpdateState
    \/ WorkerSleep

FillNext ==
    \/ Tick
    \/ \E q \in FillQtys, n \in FillSlices, iv \in Intervals :
          /\ now + (n - 1) * iv <= MaxTime
          /\ VwapExecute("AAPL", q, "BUY", n, iv)
    \/ FillWorker

\* _execution_loop line 97: backend.submit_order(...) raises. Nothing in the
\* loop catches the exception, so it leaves _execution_loop and the worker
\* thread ends.
WorkerSubmitRaises ==
    /\ wpc = "submit"
    /\ subs' = [subs EXCEPT ![Head(to_fire).parent] = @ + 1]
    /\ wpc' = "dead"
    /\ UNCHANGED <<rejected, nslices, orders, queue, now, wnow, to_fire, success, dpc,
                   dorder, cancel_ret, leak, subs_after_cancel, check_state>>
    /\ UNCHANGED otherThanExec

\* the worker with a broker that accepts, refuses or raises
LiveWorker ==
    \/ WorkerReadNow
    \/ WorkerPartition
    \/ WorkerCheck
    \/ \E ok \in BOOLEAN : WorkerSubmit(ok)
    \/ WorkerSubmitRaises
    \/ WorkerUpdateFill
    \/ WorkerUpdateState
    \/ WorkerReject
    \/ WorkerSleep

\* orders whose children all become due before the clock stops
LiveNext ==
    \/ Tick
    \/ \E q \in SliceQtys, n \in 1..MaxSlices, iv \in Intervals :
          /\ now + (n - 1) * iv <= MaxTime
          /\ VwapExecute("AAPL", q * n, "BUY", n, iv)
    \/ LiveWorker

\* rebalance(goal_positions, interval), driver thread. A positions dictionary
\* is a set of <<ticker, quantity>> pairs; quantities are in units of 0.05
\* share, so that trade_tolerance = 0.1 is 2 units.
otherThanRB == <<pmVars, dpVars, smVars, evVars, hyVars, cxVars, opVars, agVars, cbVars, lkVars, wrVars, btVars>>

RebTickers == {"AAPL", "MSFT"}

GoalInputs == {{<<"AAPL", 12>>}, {<<"AAPL", 13>>}, {<<"MSFT", 4>>},
               {<<"AAPL", 4>>, <<"MSFT", 0>>}}

\* what backend.get_positions() can return
PositionInputs == {{}, {<<"AAPL", 10>>}, {<<"AAPL", 10>>, <<"MSFT", 4>>}}

RBInit == reb = [pc |-> "none"]

\* set(d.keys())
TickerKeys(d) == {p[1] : p \in d}

\* d.get(k, 0.0)
DictGet(d, k) == IF \E p \in d : p[1] = k THEN (CHOOSE p \in d : p[1] = k)[2] ELSE 0

\* the orders in which `for ticker in all_tickers` can iterate over the set
RECURSIVE Orderings(_)
Orderings(S) ==
    IF S = {} THEN {<<>>}
    ELSE UNION {{<<x>> \o s : s \in Orderings(S \ {x})} : x \in S}

\* abs(target - current)
FAbsDiff(a, b) == FRound(IF a >= b THEN a - b ELSE b - a, 1)

\* line 154: o.ticker in all_tickers and o.state.is_active
ShouldCancelAnyTicker(o, goal) == is_active(o.state)
ShouldCancel(o, goal) == o.ticker \in TickerKeys(goal) /\ is_active(o.state)

\* lines 165-177: the orders created for the tickers taken in the order seq,
\* the first of them with order_id oid
RECURSIVE Trades(_, _, _, _)
Trades(seq, goal, pos, oid) ==
    IF seq = <<>> THEN <<>>
    ELSE LET target == DictGet(goal, Head(seq))
             current == DictGet(pos, Head(seq))
             qty == FAbsDiff(target, current)
         IN IF qty > TradeTolerance
            THEN <<NewOrder(oid, Head(seq), qty, IF target > current THEN "BUY" ELSE "SELL")>>
                     \o Trades(Tail(seq), goal, pos, oid + 1)
            ELSE Trades(Tail(seq), goal, pos, oid)

\* the children that the vwap_execute calls of rebalance enqueue
RECURSIVE TradeChildren(_, _, _)
TradeChildren(new, interval, t) ==
    IF new = <<>> THEN <<>>
    ELSE NewChildren(Head(new).order_id, Head(new).quantity, DefaultSlices, interval, t)
             \o TradeChildren(Tail(new), interval, t)

Pad(s, k, v) == s \o [i \in 1..k |-> v]

\* rebalance lines 151-152: the call begins
Rebalance(goal, interval) ==
    /\ dpc = "idle"
    /\ reb.pc = "none"
    /\ dpc' = "rebalance"
    /\ reb' = [pc |-> "cancel", goal |-> goal, interval |-> interval, idx |-> 1,
               before |-> Len(orders), seen |-> <<>>, pos |-> {}]
    /\ UNCHANGED <<now, orders, queue, wpc, wnow, to_fire, success, dorder, cancel_ret,
                   subs, leak, subs_after_cancel, check_state, rejected, nslices>>
    /\ UNCHANGED otherThanRB

\* rebalance lines 153-155 and cancel_order lines 185-186: the next order of
\* the loop and its is_active check
RebExamine ==
    /\ dpc = "rebalance"
    /\ reb.pc = "cancel"
    /\ reb.idx <= Len(orders)
    /\ LET o == orders[reb.idx]
           hit == ShouldCancel(o, reb.goal)
       IN reb' = [reb EXCEPT !.pc = IF hit THEN "cancel_write" ELSE "cancel",
                             !.idx = IF hit THEN @ ELSE @ + 1,
                             !.seen = Append(@, [state |-> o.state, cancelled |-> hit])]
    /\ UNCHANGED <<now, execVars>>
    /\ UNCHANGED otherThanRB

\* cancel_order lines 187-188, called from rebalance line 155
RebCancelWrite ==
    /\ dpc = "rebalance"
    /\ reb.pc = "cancel_write"
    /\ orders' = [orders EXCEPT ![reb.idx].state = "CANCELLED"]
    /\ leak' = LeakAfter(orders', leak)
    /\ cancel_ret' = [cancel_ret EXCEPT ![reb.idx] = "true"]
    /\ reb' = [reb EXCEPT !.pc = "cancel", !.idx = @ + 1]
    /\ UNCHANGED <<now, queue, wpc, wnow, to_fire, success, dpc, dorder,
                   subs, subs_after_cancel, check_state, rejected, nslices>>
    /\ UNCHANGED otherThanRB

\* rebalance lines 157-178: positions are read, the trades are created, the
\* call returns
RebTrade(pos, seq) ==
    /\ dpc = "rebalance"
    /\ reb.pc = "cancel"
    /\ reb.idx > Len(orders)
    /\ seq \in Orderings(TickerKeys(reb.goal) \cup TickerKeys(pos))
    /\ LET new == Trades(seq, reb.goal, pos, Len(orders) + 1)
           k == Len(new)
       IN /\ orders' = orders \o new
          /\ queue' = SortQueue(queue \o TradeChildren(new, reb.interval, now))
          /\ cancel_ret' = Pad(cancel_ret, k, "none")
          /\ subs' = Pad(subs, k, 0)
          /\ leak' = Pad(leak, k, 0)
          /\ subs_after_cancel' = Pad(subs_after_cancel, k, 0)
          /\ rejected' = Pad(rejected, k, FALSE)
          /\ nslices' = Pad(nslices, k, DefaultSlices)
    /\ dpc' = "idle"
    /\ reb' = [reb EXCEPT !.pc = "returned", !.pos = pos]
    /\ UNCHANGED <<now, wpc, wnow, to_fire, success, dorder, check_state>>
    /\ UNCHANGED otherThanRB

\* one rebalance call, with an order of two slices at work; the behaviour is
\* followed until the call returns
RebRunning == reb.pc # "returned"

RebNext ==
    \/ RebRunning /\ Tick
    \/ RebRunning /\ orders = <<>> /\ \E iv \in Intervals : VwapExecute("AAPL", 2, "BUY", 2, iv)
    \/ RebRunning /\ WorkerReadNow
    \/ RebRunning /\ WorkerPartition
    \/ RebRunning /\ WorkerCheck
    \/ RebRunning /\ \E ok \in BOOLEAN : WorkerSubmit(ok)
    \/ RebRunning /\ WorkerUpdateFill
    \/ RebRunning /\ WorkerUpdateState
    \/ RebRunning /\ WorkerReject
    \/ RebRunning /\ WorkerSleep
    \/ \E goal \in GoalInputs, iv \in Intervals : Rebalance(goal, iv)
    \/ RebExamine
    \/ RebCancelWrite
    \/ \E pos \in PositionInputs :
          \E seq \in Orderings(RebTickers) \cup Orderings({"AAPL"}) \cup Orderings({"MSFT"}) :
              RebTrade(pos, seq)

(***************************************************************************)
(* Portfolio manager safety rails: src/src/core/portfolio_manager.py       *)
(* Equity is counted in hundredths of the initial equity (1.0 = 100) and   *)
(* max_dd in percent, so (equity - peak) / peak < max_dd reads             *)
(* (equity - peak) * 100 < max_dd * peak (peak_equity >= 100 > 0).         *)
(***************************************************************************)
Equities == {90, 94, 96, 100, 104}
MaxMsgsChoices == {1, 2}
MaxDDChoices == {-5, -10}

otherThanPM == <<execVars, dpVars, smVars, evVars, hyVars, cxVars, opVars, rbVars, agVars, cbVars, lkVars, wrVars, btVars>>

\* PortfolioManager.__init__, safety defaults
PMInit ==
    /\ killed = FALSE
    /\ peak_equity = InitialEquity
    /\ current_equity = InitialEquity
    /\ msg_count = 0
    /\ last_msg_ts = 0
    /\ max_msgs = DefaultMaxMsgs
    /\ max_dd = DefaultMaxDD
    /\ pm_ret = "none"
    /\ pm_arg = InitialEquity
    /\ pm_killed_at_entry = FALSE
    /\ pm_calls = 0
    /\ pm_true = <<>>

Max(a, b) == IF a >= b THEN a ELSE b

\* check_safety line 54: if self.killed
KilledGuardBug == FALSE
KilledGuard == killed

\* check_safety line 59: (equity - self.peak_equity) / self.peak_equity < self.max_dd
DrawdownBreachedBug(equity, peak) == (equity - peak) * 100 <= max_dd * peak
DrawdownBreached(equity, peak) == (equity - peak) * 100 < max_dd * peak

\* check_safety line 64: (now - self.last_msg_ts).total_seconds() < 1.0
SameSecond == now - last_msg_ts < TicksPerSecond

\* check_safety(equity)
CheckSafetyCall(equity) ==
    /\ pm_calls < MaxCalls
    /\ pm_calls' = pm_calls + 1
    /\ pm_arg' = equity
    /\ pm_killed_at_entry' = killed
    /\ IF KilledGuard
       THEN /\ pm_ret' = "false"
            /\ UNCHANGED <<killed, peak_equity, current_equity, msg_count, last_msg_ts>>
       ELSE LET peak == Max(peak_equity, equity)
            IN /\ current_equity' = equity
               /\ peak_equity' = peak
               /\ IF DrawdownBreached(equity, peak)
                  THEN /\ killed' = TRUE
                       /\ pm_ret' = "false"
                       /\ UNCHANGED <<msg_count, last_msg_ts>>
                  ELSE LET cnt == IF SameSecond THEN msg_count + 1 ELSE 1
                       IN /\ msg_count' = cnt
                          /\ last_msg_ts' = IF SameSecond THEN last_msg_ts ELSE now
                          /\ pm_ret' = IF cnt <= max_msgs THEN "true" ELSE "false"
                          /\ UNCHANGED killed
    /\ pm_true' = IF pm_ret' = "true" THEN Append(pm_true, [ts |-> now, max_msgs |-> max_msgs])
                                     ELSE pm_true
    /\ UNCHANGED <<now, max_msgs, max_dd>>

\* check_safety(equity) called on the manager alone
CheckSafety(equity) ==
    /\ CheckSafetyCall(equity)
    /\ UNCHANGED otherThanPM

\* set_safety_limits(max_msgs, max_drawdown)
SetSafetyLimits(m, d) ==
    /\ <<m, d>> # <<max_msgs, max_dd>>
    /\ max_msgs' = m
    /\ max_dd' = d
    /\ UNCHANGED <<now, killed, peak_equity, current_equity, msg_count, last_msg_ts,
                   pm_ret, pm_arg, pm_killed_at_entry, pm_calls, pm_true>>
    /\ UNCHANGED otherThanPM

PMNext ==
    \/ Tick
    \/ \E e \in Equities : CheckSafety(e)
    \/ \E m \in MaxMsgsChoices, d \in MaxDDChoices : SetSafetyLimits(m, d)

(***************************************************************************)
(* Data platform: src/src/core/data_platform.py                            *)
(* The platform is constructed with no provider; aggregate_to is None      *)
(* unless a run constructs the platform with a list of timeframes.         *)
(* Instants (timestamp, timestamp_knowledge, as_of, ex_date) are clock     *)
(* ticks. Prices are multiples of 16 so that the split ratio 1.0 / value   *)
(* and the scaled dividend value * adj_factor are exact.                   *)
(***************************************************************************)
Times == 0..MaxTime
\* as_of: Optional[datetime] = None
None == -1
\* a missing value (float("nan")) in a price or volume column
NaN == -2

\* OHLCV values of the bars handed to add_bars
ValidShapes ==
    { [open |-> 160, high |-> 176, low |-> 144, close |-> 160, volume |-> 10],
      [open |-> 160, high |-> 192, low |-> 144, close |-> 192, volume |-> 10] }
InvalidShapes ==
    { [open |-> 160, high |-> 144, low |-> 176, close |-> 160, volume |-> 10],   \* high < low
      [open |-> 160, high |-> 208, low |-> 144, close |-> NaN, volume |-> 10] }  \* no close
BaseShape == CHOOSE v \in ValidShapes : v.close = 160

\* Bar(internal_id, timestamp, open, high, low, close, volume, timeframe, timestamp_knowledge)
MkBar(iid, ts, shape, tf, tk) ==
    [internal_id |-> iid, timestamp |-> ts, open |-> shape.open, high |-> shape.high,
     low |-> shape.low, close |-> shape.close, volume |-> shape.volume,
     timeframe |-> tf, timestamp_knowledge |-> tk]

\* the bars a caller hands to add_bars; timestamp_knowledge is the caller's
\* (datetime.now() by default, any instant when given)
BarInputs ==
    {MkBar(1000, 1, BaseShape, "1D", tk) : tk \in Times}
    \cup {MkBar(1000, 1, sh, "1D", 1) : sh \in (ValidShapes \ {BaseShape}) \cup InvalidShapes}
    \cup {MkBar(1000, 2, BaseShape, "1D", 2),
          MkBar(1001, 1, BaseShape, "1D", 1),
          MkBar(1000, 1, BaseShape, "1min", 1)}

\* the lists of bars of one add_bars call: one bar, or two versions of one
\* bar that carry the same timestamp_knowledge
BarBatches ==
    {{b} : b \in BarInputs}
    \cup {{b1, b2} : <<b1, b2>> \in
              {p \in BarInputs \X BarInputs :
                  /\ p[1].internal_id = p[2].internal_id
                  /\ p[1].timestamp = p[2].timestamp
                  /\ p[1].timeframe = p[2].timeframe
                  /\ p[1].timestamp_knowledge = p[2].timestamp_knowledge}}

\* the bars written in the runs that also record corporate actions
AdjBarBatches ==
    {{MkBar(1000, 1, BaseShape, "1D", tk)} : tk \in {0, 1}}
    \cup {{MkBar(1001, 1, BaseShape, "1D", 0)}}

\* CorporateAction(internal_id, ex_date, type, value)
CAInputs ==
    { [internal_id |-> 1000, ex_date |-> 2, type |-> "SPLIT", value |-> 2],
      [internal_id |-> 1000, ex_date |-> 2, type |-> "DIVIDEND", value |-> 16],
      [internal_id |-> 1000, ex_date |-> 1, type |-> "SPLIT", value |-> 2] }

\* QueryConfig(start, end, timeframe, as_of, adjust)
QueryConfigs ==
    [start : {1}, end : {2}, timeframe : {"1D"},
     as_of : Times \cup {None}, adjust : BOOLEAN]

\* the queries for raw bars
RawQueryConfigs == {cfg \in QueryConfigs : ~cfg.adjust}

\* the iids argument of get_bars
IidLists == {<<1000>>, <<1000, 1001>>}

\* what the last call on the platform returned: add_bars and add_ca return
\* nothing, get_bars returns a frame
NoQuery == [called |-> FALSE]

otherThanDP == <<execVars, pmVars, smVars, evVars, hyVars, cxVars, opVars, rbVars, agVars, cbVars, lkVars, wrVars, btVars>>

\* DataPlatform.__init__ with clear = True
DPInit ==
    /\ bars = {}
    /\ ca_df = {}
    /\ last_query = NoQuery

otherThanAG == <<execVars, pmVars, smVars, evVars, hyVars, cxVars, opVars, rbVars, cbVars, lkVars, wrVars, btVars>>

\* aggregate_to: Optional[List[str]] = None
AGInit == aggregate_to = <<>>

\* DataPlatform(clear=True, aggregate_to=targets): the library is deleted and
\* created again. The runs that construct the platform register no security
\* and record no event, so the metadata is as it was.
Construct(targets) ==
    /\ aggregate_to' = targets
    /\ bars' = {}
    /\ ca_df' = {}
    /\ last_query' = NoQuery
    /\ UNCHANGED now
    /\ UNCHANGED otherThanAG

otherThanStore == <<execVars, pmVars, evVars, hyVars, cxVars, opVars, rbVars, cbVars, lkVars, wrVars, btVars>>

\* int(self.meta["sec_df"].internal_id.max() + 1)
RECURSIVE MaxInternalId(_)
MaxInternalId(df) ==
    IF Len(df) = 1 THEN df[1].internal_id
    ELSE LET m == MaxInternalId(Tail(df))
         IN IF df[1].internal_id > m THEN df[1].internal_id ELSE m

\* _load_metadata lines 114-118: the counter of a platform opened on a store
LoadedCounter(df) == IF df = <<>> THEN FirstId ELSE MaxInternalId(df) + 1

\* DataPlatform(db_path, clear=False, aggregate_to=targets): a new instance
\* on the persisted store. The bars and the metadata tables are read back
\* from the library; aggregate_to and _id_counter are set anew.
Reopen(targets) ==
    /\ aggregate_to' = targets
    /\ id_counter' = LoadedCounter(sec_df)
    /\ last_query' = NoQuery
    /\ UNCHANGED <<now, bars, ca_df, sec_df, minted, sm_ret>>
    /\ UNCHANGED otherThanStore

\* the table is a bag of rows, kept as the set of <<row, k>> for the k-th
\* copy of each row
RowsOf(table) == {p[1] : p \in table}

Copies(table, r) == Cardinality({p \in table : p[1] = r})

\* len(df) of the table
TableSize(table) == Cardinality(table)

\* pd.concat([current_data, df])
Concat(table, rows) == table \cup {<<r, Copies(table, r) + 1>> : r \in rows}

\* _write_ts: the table becomes the old rows plus the new ones (sort_index
\* orders them by timestamp, which the bag does not record)
WriteTsUpsert(table, rows) ==
    LET SameKey(a, b) == /\ a.internal_id = b.internal_id
                         /\ a.timestamp = b.timestamp
                         /\ a.timeframe = b.timeframe
        kept == {r \in RowsOf(table) : \A n \in rows : ~SameKey(r, n)}
    IN Concat({p \in table : p[1] \in kept}, rows)
WriteTs(table, rows) ==
    IF rows = {} THEN table ELSE Concat(table, rows)

SeqToSet(sq) == {sq[i] : i \in 1..Len(sq)}

\* int(tf.replace("min", "")): the minutes of a timeframe, None when the
\* conversion raises ValueError
Minutes(tf) ==
    IF tf = "1min" THEN 1 ELSE IF tf = "2min" THEN 2 ELSE None

\* pd.Timestamp(ts).floor(freq); bar timestamps of minute bars count minutes
WindowStart(ts, tf) ==
    IF Minutes(tf) = None THEN ts ELSE ts - (ts % Minutes(tf))

\* add_bars lines 262-270: the stored rows of the bar's id and timeframe
\* from the window start to the bar, every copy of a row counted
WindowDf(table, bar, target_tf) ==
    {p \in table :
        /\ p[1].internal_id = bar.internal_id
        /\ p[1].timeframe = bar.timeframe
        /\ p[1].timestamp >= WindowStart(bar.timestamp, target_tf)
        /\ p[1].timestamp <= bar.timestamp}

SetMax(S) == CHOOSE x \in S : \A y \in S : y <= x

SetMin(S) == CHOOSE x \in S : \A y \in S : x <= y

\* window_df.volume.sum()
RECURSIVE VolumeSum(_)
VolumeSum(window) ==
    IF window = {} THEN 0
    ELSE LET p == CHOOSE x \in window : TRUE
         IN p[1].volume + VolumeSum(window \ {p})

\* add_bars lines 272-289: the aggregated bars the window can give. The
\* frame is ordered by sort_index, which leaves rows of one timestamp in any
\* order, so iloc[0] is any of the earliest rows and iloc[-1] any of the
\* latest ones. The bars of the aggregating runs have no missing value.
AggBars(window, bar, target_tf) ==
    LET rows == RowsOf(window)
        first == {r \in rows : \A o \in rows : r.timestamp <= o.timestamp}
        last == {r \in rows : \A o \in rows : o.timestamp <= r.timestamp}
    IN {[internal_id |-> bar.internal_id,
         timestamp |-> WindowStart(bar.timestamp, target_tf),
         open |-> f.open,
         high |-> SetMax({r.high : r \in rows}),
         low |-> SetMin({r.low : r \in rows}),
         close |-> l.close,
         volume |-> VolumeSum(window),
         timeframe |-> target_tf,
         timestamp_knowledge |-> bar.timestamp_knowledge] : f \in first, l \in last}

\* len(window_df) >= required_count
WindowComplete(window, required_count) ==
    TableSize(window) >= required_count

\* add_bars lines 250-295 for one bar and one target timeframe: the tables
\* the step can leave
AggregateOne(table, bar, target_tf) ==
    LET window == WindowDf(table, bar, target_tf)
    IN IF \/ target_tf = bar.timeframe
          \/ Minutes(target_tf) = None
          \/ Minutes(bar.timeframe) = None
          \/ ~WindowComplete(window, Minutes(target_tf) \div Minutes(bar.timeframe))
       THEN {table}
       ELSE {WriteTs(table, {a}) : a \in AggBars(window, bar, target_tf)}

\* add_bars lines 249-295: for bar in bars, for target_tf in aggregate_to.
\* The steps read rows of the bar's timeframe and write rows of the target
\* one; the lists of the runs hold bars of one timeframe, so the order of
\* the steps does not change the outcome.
RECURSIVE AggregateAll(_, _)
AggregateAll(tables, todo) ==
    IF todo = {} THEN tables
    ELSE LET step == CHOOSE x \in todo : TRUE
         IN AggregateAll(UNION {AggregateOne(t, step[1], step[2]) : t \in tables},
                         todo \ {step})

\* add_bars(bars): the tables the call can leave
AddBarsOutcomes(table, batch, targets) ==
    AggregateAll({WriteTs(table, batch)}, batch \X SeqToSet(targets))

\* add_bars(bars): every bar of the list is written, then the higher
\* timeframes of aggregate_to are formed
AddBars(batch) ==
    /\ \E res \in AddBarsOutcomes(bars, batch, aggregate_to) :
          /\ TableSize(res) <= MaxBars
          /\ bars' = res
    /\ last_query' = NoQuery
    /\ UNCHANGED <<now, ca_df>>
    /\ UNCHANGED otherThanDP

\* add_ca(ca): concat and drop_duplicates
AddCA(ca) ==
    /\ Cardinality(ca_df \cup {ca}) <= MaxCA
    /\ ca_df' = ca_df \cup {ca}
    /\ last_query' = NoQuery
    /\ UNCHANGED <<now, bars>>
    /\ UNCHANGED otherThanDP

\* cfg.as_of or datetime.now()
AsOf(cfg, clock) == IF cfg.as_of = None THEN clock ELSE cfg.as_of

\* get_bars lines 321-328: the rows the query selects
VisibleIgnoringAsOf(table, iids, cfg, clock) ==
    {r \in RowsOf(table) :
        /\ r.internal_id \in SeqToSet(iids)
        /\ r.timeframe = cfg.timeframe
        /\ r.timestamp >= cfg.start
        /\ r.timestamp <= cfg.end}
Visible(table, iids, cfg, clock) ==
    {r \in RowsOf(table) :
        /\ r.internal_id \in SeqToSet(iids)
        /\ r.timeframe = cfg.timeframe
        /\ r.timestamp >= cfg.start
        /\ r.timestamp <= cfg.end
        /\ r.timestamp_knowledge <= AsOf(cfg, clock)}

KeyOf(r) == <<r.internal_id, r.timestamp>>

\* the rows of one (internal_id, timestamp) group
GroupOf(rows, key) == {r \in rows : KeyOf(r) = key}

\* sort_values("timestamp_knowledge"): the orders the sort can leave a group
\* in. The default kind is quicksort, which is not stable, so rows of equal
\* timestamp_knowledge can come out in any order.
RECURSIVE SortedByKnowledge(_)
SortedByKnowledge(group) ==
    IF group = {} THEN {<<>>}
    ELSE UNION {{Append(s, r) : s \in SortedByKnowledge(group \ {r})} :
                   r \in {x \in group : \A o \in group :
                                  o.timestamp_knowledge <= x.timestamp_knowledge}}

\* GroupBy.last() on one column: the last entry that is not missing
RECURSIVE LastValid(_, _, _)
LastValid(s, col, i) ==
    IF i = 0 THEN NaN
    ELSE IF s[i][col] # NaN THEN s[i][col]
    ELSE LastValid(s, col, i - 1)

\* get_bars lines 335-340: sort_values("timestamp_knowledge") then
\* groupby(["internal_id", "timestamp"]).last(): the rows the group can yield
Latest(rows, key) ==
    {[internal_id |-> key[1], timestamp |-> key[2],
      open |-> LastValid(s, "open", Len(s)), high |-> LastValid(s, "high", Len(s)),
      low |-> LastValid(s, "low", Len(s)), close |-> LastValid(s, "close", Len(s)),
      volume |-> LastValid(s, "volume", Len(s)),
      timeframe |-> s[Len(s)].timeframe,
      timestamp_knowledge |-> s[Len(s)].timestamp_knowledge]
       : s \in SortedByKnowledge(GroupOf(rows, key))}

\* the corporate actions of one id with ex_date <= cfg.end, newest first
\* (lines 348-351, 358-360); the order among equal ex_dates does not change
\* the adjusted values
RECURSIVE SortByExDateDesc(_)
SortByExDateDesc(cas) ==
    IF cas = {} THEN <<>>
    ELSE LET c == CHOOSE x \in cas : \A y \in cas : y.ex_date <= x.ex_date
         IN <<c>> \o SortByExDateDesc(cas \ {c})

\* r.value * adj_factor (line 370): div is 1 / adj_factor
DividendAdjUnscaled(value, div) == value
DividendAdj(value, div) == value \div div

\* lines 358-370 for one row: div is 1 / adj_factor
RECURSIVE ApplyActions(_, _, _)
ApplyActions(r, caSeq, div) ==
    IF caSeq = <<>> THEN r
    ELSE LET c == Head(caSeq)
             hit == r.timestamp < c.ex_date
         IN IF c.type = "SPLIT"
            THEN ApplyActions(
                    IF hit THEN [r EXCEPT !.open = @ \div c.value, !.high = @ \div c.value,
                                          !.low = @ \div c.value, !.close = @ \div c.value]
                    ELSE r,
                    Tail(caSeq), div * c.value)
            ELSE IF c.type = "DIVIDEND"
            THEN ApplyActions(
                    IF hit THEN [r EXCEPT !.open = @ - DividendAdj(c.value, div),
                                          !.high = @ - DividendAdj(c.value, div),
                                          !.low = @ - DividendAdj(c.value, div),
                                          !.close = @ - DividendAdj(c.value, div)]
                    ELSE r,
                    Tail(caSeq), div)
            ELSE ApplyActions(r, Tail(caSeq), div)

\* lines 353-370: for iid in iids, adjust the rows of iid
RECURSIVE AdjustRow(_, _, _, _)
AdjustRow(r, cas, iids, cfg) ==
    IF iids = <<>> THEN r
    ELSE LET iid == Head(iids)
             mine == {c \in cas : c.internal_id = iid /\ c.ex_date <= cfg.end}
         IN AdjustRow(IF r.internal_id = iid
                      THEN ApplyActions(r, SortByExDateDesc(mine), 1)
                      ELSE r,
                      cas, Tail(iids), cfg)

\* the corporate actions get_bars reads (line 347): all of ca_df, whatever
\* cfg.as_of is
KnownActions(cas, cfg, clock) == cas

EmptyFrame == [rows |-> {}, suffix |-> ""]

\* get_bars(iids, cfg): the frames the call can return
GetBarsOutcomes(table, cas, iids, cfg, clock) ==
    LET visible == Visible(table, iids, cfg, clock)
        keys == {KeyOf(r) : r \in visible}
        cands == UNION {Latest(visible, k) : k \in keys}
        picks == {f \in [keys -> cands] : \A k \in keys : f[k] \in Latest(visible, k)}
        known == KnownActions(cas, cfg, clock)
    IN IF visible = {} THEN {EmptyFrame}
       ELSE {[rows |-> {IF cfg.adjust /\ known # {}
                        THEN AdjustRow(f[k], {c \in known : c.internal_id \in SeqToSet(iids)},
                                       iids, cfg)
                        ELSE f[k] : k \in keys},
              suffix |-> cfg.timeframe] : f \in picks}

\* get_bars(iids, cfg) called by the driver
GetBars(iids, cfg) ==
    /\ \E res \in GetBarsOutcomes(bars, ca_df, iids, cfg, now) :
          last_query' = [called |-> TRUE, iids |-> iids, cfg |-> cfg,
                as_of |-> AsOf(cfg, now), res |-> res]
    /\ UNCHANGED <<now, bars, ca_df>>
    /\ UNCHANGED otherThanDP

\* the minute bars of the runs that aggregate: known at their own time
MinuteBars ==
    {MkBar(1000, ts, sh, "1min", ts) : ts \in Times, sh \in ValidShapes}

\* one bar, or the two bars of the first window
MinuteBatches ==
    {{b} : b \in MinuteBars}
    \cup {{MkBar(1000, 0, BaseShape, "1min", 0), MkBar(1000, 1, sh, "1min", 1)} :
              sh \in ValidShapes}

\* the queries of the runs that aggregate
AggQueryConfigs ==
    [start : {0}, end : {MaxTime}, timeframe : {"1min", "2min"},
     as_of : {None}, adjust : {FALSE}]

\* the platform is constructed or opened again with or without
\* aggregate_to, minute bars are written, minute and two-minute bars are read
AggNext ==
    \/ Tick
    \/ \E targets \in {<<>>, <<"2min">>} : Construct(targets)
    \/ \E targets \in {<<>>, <<"2min">>} : Reopen(targets)
    \/ \E batch \in MinuteBatches : AddBars(batch)
    \/ \E cfg \in AggQueryConfigs : GetBars(<<1000>>, cfg)

\* the daily bars of the runs that adjust: two bars of one id, one bar of
\* another
DailyBars ==
    {MkBar(1000, 0, BaseShape, "1D", 0), MkBar(1000, 1, BaseShape, "1D", 0),
     MkBar(1001, 0, BaseShape, "1D", 0)}

\* the corporate actions of the runs that adjust
AdjCAInputs ==
    { [internal_id |-> 1000, ex_date |-> 2, type |-> "SPLIT", value |-> 2],
      [internal_id |-> 1000, ex_date |-> 1, type |-> "DIVIDEND", value |-> 16],
      [internal_id |-> 1000, ex_date |-> 1, type |-> "SPLIT", value |-> 2],
      [internal_id |-> 1001, ex_date |-> 1, type |-> "SPLIT", value |-> 2] }

\* the queries of the runs that adjust
AdjQueryConfigs ==
    [start : {0}, end : {1, 2}, timeframe : {"1D"}, as_of : {None}, adjust : BOOLEAN]

\* daily bars and corporate actions are written, adjusted and raw bars are
\* read with lists of distinct ids
AdjNext ==
    \/ \E b \in DailyBars : AddBars({b})
    \/ \E ca \in AdjCAInputs : AddCA(ca)
    \/ \E iids \in IidLists, cfg \in AdjQueryConfigs : GetBars(iids, cfg)

\* bars are written and read, no corporate action is recorded
DPNext ==
    \/ Tick
    \/ \E batch \in BarBatches : AddBars(batch)
    \/ \E iids \in IidLists, cfg \in RawQueryConfigs : GetBars(iids, cfg)

\* bars and corporate actions are written, adjusted and raw bars are read
CANext ==
    \/ Tick
    \/ \E batch \in AdjBarBatches : AddBars(batch)
    \/ \E ca \in CAInputs : AddCA(ca)
    \/ \E iids \in IidLists, cfg \in QueryConfigs : GetBars(iids, cfg)

(***************************************************************************)
(* Security master of the data platform: register_security and             *)
(* get_internal_id of src/src/core/data_platform.py. Dates are instants of *)
(* the model; DefaultStart and DefaultEnd stand for the years 1900, 2200.  *)
(***************************************************************************)
SecTickers == {"FB", "META"}

\* the dates handed to register_security and get_internal_id
SecDates == {1, 2}

\* the arguments of the register_security calls
RegisterCalls ==
    { [ticker |-> "FB", internal_id |-> None, start |-> None, end |-> None],
      [ticker |-> "FB", internal_id |-> None, start |-> None, end |-> 1],
      [ticker |-> "FB", internal_id |-> None, start |-> 2, end |-> None],
      [ticker |-> "FB", internal_id |-> 1001, start |-> 1, end |-> None],
      [ticker |-> "META", internal_id |-> 1000, start |-> 2, end |-> None],
      [ticker |-> "META", internal_id |-> None, start |-> None, end |-> None] }

otherThanSM == <<execVars, pmVars, dpVars, evVars, hyVars, cxVars, opVars, rbVars, agVars, cbVars, lkVars, wrVars, btVars>>

\* _load_metadata on an empty library
SMInit ==
    /\ sec_df = <<>>
    /\ id_counter = FirstId
    /\ minted = {}
    /\ sm_ret = [op |-> "none"]

\* lines 174-179: the rows of the ticker whose interval overlaps
\* [start_date, end_date], in table order
ExistingSecurity(df, ticker, start_date, end_date) ==
    SelectSeq(df, LAMBDA r : /\ r.ticker = ticker
                             /\ r.start <= end_date
                             /\ r.end >= start_date)

\* the body of register_security(ticker, internal_id, start, end), called as op
RegisterSecurityBody(op, ticker, internal_id, start, end) ==
    LET start_date == IF start = None THEN DefaultStart ELSE start
        end_date == IF end = None THEN DefaultEnd ELSE end
        existing_security == ExistingSecurity(sec_df, ticker, start_date, end_date)
        \* internal_id or self._id_counter
        iid == IF internal_id = None \/ internal_id = 0 THEN id_counter ELSE internal_id
        call == [op |-> op, ticker |-> ticker, internal_id |-> internal_id,
                 start |-> start_date, end |-> end_date]
    IN IF internal_id = None /\ existing_security # <<>>
       THEN /\ sm_ret' = call @@ [ret |-> Head(existing_security).internal_id]
            /\ UNCHANGED <<sec_df, id_counter, minted>>
       ELSE /\ Len(sec_df) < MaxSecs
            /\ id_counter' = IF internal_id = None THEN id_counter + 1 ELSE id_counter
            /\ minted' = IF iid = id_counter THEN minted \cup {iid} ELSE minted
            /\ sec_df' = Append(sec_df, [internal_id |-> iid, ticker |-> ticker,
                                         start |-> start_date, end |-> end_date])
            /\ sm_ret' = call @@ [ret |-> iid]

\* register_security(ticker, internal_id, start, end)
RegisterSecurity(c) ==
    /\ RegisterSecurityBody("register_security", c.ticker, c.internal_id, c.start, c.end)
    /\ UNCHANGED now
    /\ UNCHANGED otherThanSM

\* get_internal_id(ticker, date): register_security(ticker, start = date or now)
GetInternalId(ticker, date) ==
    /\ RegisterSecurityBody("get_internal_id", ticker, None,
                            IF date = None THEN now ELSE date, None)
    /\ UNCHANGED now
    /\ UNCHANGED otherThanSM

SMNext ==
    \/ \E c \in RegisterCalls : RegisterSecurity(c)
    \/ \E ticker \in SecTickers, date \in SecDates \cup {None} : GetInternalId(ticker, date)

\* register_security calls that mint an id, pass 0, or pass an explicit id
\* at or above the counter of a fresh platform
IdCalls ==
    { [ticker |-> "FB", internal_id |-> None, start |-> None, end |-> None],
      [ticker |-> "META", internal_id |-> None, start |-> None, end |-> None],
      [ticker |-> "META", internal_id |-> 0, start |-> None, end |-> None],
      [ticker |-> "FB", internal_id |-> FirstId, start |-> 1, end |-> None],
      [ticker |-> "META", internal_id |-> FirstId + 1, start |-> 2, end |-> None] }

\* registrations on a platform that is closed and opened again on its store
IdNext ==
    \/ \E c \in IdCalls : RegisterSecurity(c)
    \/ \E ticker \in SecTickers : GetInternalId(ticker, None)
    \/ Reopen(<<>>)

(***************************************************************************)
(* Events of the data platform: add_events and get_events of               *)
(* src/src/core/data_platform.py. The events table is a bag of Event rows, *)
(* kept like the bars table.                                               *)
(***************************************************************************)
\* Event(internal_id, timestamp, event_type, value, timestamp_knowledge)
MkEvent(iid, ts, ty, v, tk) ==
    [internal_id |-> iid, timestamp |-> ts, event_type |-> ty, value |-> v,
     timestamp_knowledge |-> tk]

\* the events a caller hands to add_events
EventInputs ==
    {MkEvent(1000, 1, "NEWS", v, tk) : v \in {1, 2}, tk \in {1, 2}}
    \cup {MkEvent(1000, 2, "NEWS", 1, 1),
          MkEvent(1001, 1, "NEWS", 1, 1),
          MkEvent(1000, 1, "EARNINGS", 1, 1)}

\* the arguments of the get_events calls; types = <<>> is the call without
\* types (None and [] both skip the filter)
EventQueries ==
    [iids : {<<1000>>}, types : {<<>>, <<"NEWS">>}, start : {None, 2},
     end : {None, 1}, as_of : {None, 1}]

NoEvents == [called |-> FALSE]

otherThanEV == <<execVars, pmVars, dpVars, smVars, hyVars, cxVars, opVars, rbVars, agVars, cbVars, lkVars, wrVars, btVars>>

\* no "events" symbol in the library
EVInit ==
    /\ events = {}
    /\ ev_ret = NoEvents

\* add_events(events): _write_ts("events", df)
AddEvents(batch) ==
    /\ TableSize(events) + Cardinality(batch) <= MaxEvents
    /\ events' = WriteTs(events, batch)
    /\ ev_ret' = NoEvents
    /\ UNCHANGED now
    /\ UNCHANGED otherThanEV

\* get_events lines 388-399: the stored copies the query selects
EventsSelected(table, qry, clock) ==
    {p \in table :
        /\ p[1].internal_id \in SeqToSet(qry.iids)
        /\ p[1].timestamp_knowledge <= (IF qry.as_of = None THEN clock ELSE qry.as_of)
        /\ qry.start # None => p[1].timestamp >= qry.start
        /\ qry.end # None => p[1].timestamp <= qry.end
        /\ qry.types # <<>> => p[1].event_type \in SeqToSet(qry.types)}

\* get_events(iids, types, start, end, as_of): every selected copy is
\* returned as an Event
GetEvents(qry) ==
    /\ ev_ret' = [called |-> TRUE, qry |-> qry,
                  as_of |-> IF qry.as_of = None THEN now ELSE qry.as_of,
                  res |-> IF events = {} THEN {} ELSE EventsSelected(events, qry, now)]
    /\ UNCHANGED <<now, events>>
    /\ UNCHANGED otherThanEV

EVNext ==
    \/ Tick
    \/ \E e1 \in EventInputs : AddEvents({e1})
    \/ \E qry \in EventQueries : GetEvents(qry)

(***************************************************************************)
(* Feature hydration: feature() and AlphaEngine._hydrate_features of       *)
(* src/src/core/alpha_engine.py. The recursion is kept as a stack of       *)
(* frames, one per _hydrate_features call: its feature_names, the position *)
(* of its for loop and whether the loop is waiting for the recursive call. *)
(***************************************************************************)
FeatureNames == {"a", "b", "c"}

\* the dependencies argument of feature()
DepLists == {<<>>, <<"b">>, <<"c">>, <<"b", "c">>, <<"a">>}

\* the feature_names handed to _hydrate_features ("x" is never registered)
Requests == {<<"a">>, <<"a", "a">>, <<"b", "a">>, <<"x", "c">>}

otherThanHY == <<execVars, pmVars, dpVars, smVars, evVars, cxVars, opVars, rbVars, agVars, cbVars, lkVars, wrVars, btVars>>

\* the module as imported: empty registries, no hydration in progress
HYInit ==
    /\ FEATURE_DEPS = <<>>
    /\ h_pc = "idle"
    /\ h_stack = <<>>
    /\ h_seen = {}
    /\ h_cols = {}
    /\ h_log = <<>>

\* FEATURES: the registered names (feature() writes both registries)
FEATURES == DOMAIN FEATURE_DEPS

\* @feature(name, dependencies): FEATURES[name] = func,
\* FEATURE_DEPS[name] = dependencies or []
Feature(name, deps) ==
    /\ h_pc = "idle"
    /\ FEATURE_DEPS' = [n \in FEATURES \cup {name} |->
                           IF n = name THEN deps ELSE FEATURE_DEPS[n]]
    /\ UNCHANGED <<now, h_pc, h_stack, h_seen, h_cols, h_log>>
    /\ UNCHANGED otherThanHY

\* _hydrate_features(df, feature_names) called with seen = None
HydrateCall(feature_names) ==
    /\ h_pc = "idle"
    /\ h_pc' = "running"
    /\ h_stack' = <<[names |-> feature_names, i |-> 1, phase |-> "loop"]>>
    /\ h_seen' = {}
    /\ UNCHANGED <<now, FEATURE_DEPS, h_cols, h_log>>
    /\ UNCHANGED otherThanHY

Top == h_stack[Len(h_stack)]

\* the f of the current loop iteration
CurrentFeature == Top.names[Top.i]

AtLoopItem ==
    /\ h_pc = "running"
    /\ Top.phase = "loop"
    /\ Top.i <= Len(Top.names)

\* f in seen
AlreadySeenBug(f) == FALSE
AlreadySeen(f) == f \in h_seen

\* if f in seen or f not in FEATURES: continue
HydrateSkip ==
    /\ AtLoopItem
    /\ AlreadySeen(CurrentFeature) \/ CurrentFeature \notin FEATURES
    /\ h_stack' = [h_stack EXCEPT ![Len(h_stack)].i = @ + 1]
    /\ UNCHANGED <<now, FEATURE_DEPS, h_pc, h_seen, h_cols, h_log>>
    /\ UNCHANGED otherThanHY

\* deps = FEATURE_DEPS.get(f, []); AlphaEngine._hydrate_features(df, deps, seen)
HydrateDescend ==
    /\ AtLoopItem
    /\ ~AlreadySeen(CurrentFeature) /\ CurrentFeature \in FEATURES
    /\ Len(h_stack) < MaxDepth
    /\ h_stack' = Append([h_stack EXCEPT ![Len(h_stack)].phase = "after_deps"],
                         [names |-> FEATURE_DEPS[CurrentFeature], i |-> 1,
                          phase |-> "loop"])
    /\ UNCHANGED <<now, FEATURE_DEPS, h_pc, h_seen, h_cols, h_log>>
    /\ UNCHANGED otherThanHY

\* the recursive call exceeds the interpreter's recursion limit:
\* RecursionError unwinds every frame
HydrateRecursionError ==
    /\ AtLoopItem
    /\ ~AlreadySeen(CurrentFeature) /\ CurrentFeature \in FEATURES
    /\ Len(h_stack) >= MaxDepth
    /\ h_stack' = <<>>
    /\ h_pc' = "error"
    /\ UNCHANGED <<now, FEATURE_DEPS, h_seen, h_cols, h_log>>
    /\ UNCHANGED otherThanHY

\* df[f] = FEATURES[f](df); seen.add(f)
HydrateCompute ==
    /\ h_pc = "running"
    /\ Top.phase = "after_deps"
    /\ h_log' = Append(h_log, [f |-> CurrentFeature, cols |-> h_cols])
    /\ h_cols' = h_cols \cup {CurrentFeature}
    /\ h_seen' = h_seen \cup {CurrentFeature}
    /\ h_stack' = [h_stack EXCEPT ![Len(h_stack)].i = @ + 1,
                                  ![Len(h_stack)].phase = "loop"]
    /\ UNCHANGED <<now, FEATURE_DEPS, h_pc>>
    /\ UNCHANGED otherThanHY

\* the for loop is over: the call returns
HydrateReturn ==
    /\ h_pc = "running"
    /\ Top.phase = "loop"
    /\ Top.i > Len(Top.names)
    /\ h_stack' = SubSeq(h_stack, 1, Len(h_stack) - 1)
    /\ h_pc' = IF Len(h_stack) = 1 THEN "done" ELSE "running"
    /\ UNCHANGED <<now, FEATURE_DEPS, h_seen, h_cols, h_log>>
    /\ UNCHANGED otherThanHY

\* the registered features that f depends on, directly or through registered
\* features (the edges of FEATURE_DEPS)
RECURSIVE ReachableDeps(_, _)
ReachableDeps(frontier, visited) ==
    LET next == {d \in UNION {SeqToSet(FEATURE_DEPS[n]) : n \in frontier} :
                    d \in FEATURES} \ visited
    IN IF next = {} THEN visited ELSE ReachableDeps(next, visited \cup next)

TransitiveDeps(f) == IF f \in FEATURES THEN ReachableDeps({f}, {}) ELSE {}

HYNext ==
    \/ \E name \in FeatureNames, deps \in DepLists : Feature(name, deps)
    \/ \E feature_names \in Requests : HydrateCall(feature_names)
    \/ HydrateSkip
    \/ HydrateDescend
    \/ HydrateRecursionError
    \/ HydrateCompute
    \/ HydrateReturn

(***************************************************************************)
(* Execution context of the alpha engine: alpha_context, the context_as_of *)
(* property, AlphaModel.get_events and AlphaEngine.run_model of            *)
(* src/src/core/alpha_engine.py. _context_data and _context_as_of are      *)
(* ContextVars: every thread has its own value of each, None by default.   *)
(***************************************************************************)
Threads == {1, 2}

\* the timestamp argument of alpha_context and of ModelRunConfig
Stamps == {1, 2}

\* the default of both ContextVars
NoContext == [data |-> "none", as_of |-> None]

\* the arguments of the AlphaModel.get_events calls
ModelEventArgs == {[iids |-> <<1000>>, types |-> <<>>, start |-> None, end |-> None]}

NoCall == [status |-> "none"]

otherThanCX == <<execVars, pmVars, smVars, hyVars, opVars, rbVars, agVars, cbVars, lkVars, wrVars, btVars>>

\* no thread has entered a context, read it or run a model
CXInit ==
    /\ ctx = [t \in Threads |-> NoContext]
    /\ tokens = [t \in Threads |-> <<>>]
    /\ scopes = [t \in Threads |-> <<>>]
    /\ c_read = [t \in Threads |-> NoCall]
    /\ c_ev = [t \in Threads |-> NoCall]
    /\ c_exit = [t \in Threads |-> "none"]
    /\ c_run = [t \in Threads |-> NoCall]

\* where a thread's values of the ContextVars are kept: in its own context
SlotShared(t) == 1
Slot(t) == t

\* _context_data.get(), _context_as_of.get() in thread t
CtxOf(t) == ctx[Slot(t)]

\* alpha_context lines 31-32: set both variables, keep the tokens
EnterContext(t, data, timestamp) ==
    /\ tokens' = [tokens EXCEPT ![t] = Append(@, CtxOf(t))]
    /\ ctx' = [ctx EXCEPT ![Slot(t)] = [data |-> data, as_of |-> timestamp]]
    /\ scopes' = [scopes EXCEPT ![t] = Append(@, [data |-> data, as_of |-> timestamp])]

\* ContextVar.reset(token): back to the value the variable had before the set
ResetToDefault(token) == NoContext
ResetTo(token) == token

\* alpha_context lines 35-37: the finally block
LeaveContext(t) ==
    /\ ctx' = [ctx EXCEPT ![Slot(t)] = ResetTo(tokens[t][Len(tokens[t])])]
    /\ tokens' = [tokens EXCEPT ![t] = SubSeq(@, 1, Len(@) - 1)]
    /\ scopes' = [scopes EXCEPT ![t] = SubSeq(@, 1, Len(@) - 1)]

\* with alpha_context(data, timestamp): entered by thread t
Enter(t, timestamp) ==
    /\ Len(scopes[t]) < MaxNest
    /\ EnterContext(t, "dp", timestamp)
    /\ c_read' = [c_read EXCEPT ![t] = NoCall]
    /\ c_ev' = [c_ev EXCEPT ![t] = NoCall]
    /\ c_exit' = [c_exit EXCEPT ![t] = "none"]
    /\ UNCHANGED <<now, c_run, dpVars, evVars>>
    /\ UNCHANGED otherThanCX

\* the body of the with statement ends normally; when the scope is the one
\* of run_model, run_model returns
Exit(t) ==
    /\ scopes[t] # <<>>
    /\ LeaveContext(t)
    /\ c_read' = [c_read EXCEPT ![t] = NoCall]
    /\ c_ev' = [c_ev EXCEPT ![t] = NoCall]
    /\ c_exit' = [c_exit EXCEPT ![t] = "return"]
    /\ c_run' = [c_run EXCEPT ![t] = NoCall]
    /\ UNCHANGED <<now, dpVars, evVars>>
    /\ UNCHANGED otherThanCX

\* the body of the with statement raises: the finally block runs and the
\* exception leaves the scope
ExitOnError(t) ==
    /\ scopes[t] # <<>>
    /\ LeaveContext(t)
    /\ c_read' = [c_read EXCEPT ![t] = NoCall]
    /\ c_ev' = [c_ev EXCEPT ![t] = NoCall]
    /\ c_exit' = [c_exit EXCEPT ![t] = "error"]
    /\ c_run' = [c_run EXCEPT ![t] = NoCall]
    /\ UNCHANGED <<now, dpVars, evVars>>
    /\ UNCHANGED otherThanCX

\* model.context_as_of read by thread t
ReadAsOf(t) ==
    /\ c_read' = [c_read EXCEPT ![t] = [status |-> "read", as_of |-> CtxOf(t).as_of]]
    /\ UNCHANGED <<now, ctx, tokens, scopes, c_ev, c_exit, c_run, dpVars, evVars>>
    /\ UNCHANGED otherThanCX

\* if data is None
OutsideContextBug(t) == FALSE
OutsideContext(t) == CtxOf(t).data = "none"

\* AlphaModel.get_events(iids, types, start, end) called by thread t
ModelGetEvents(t, args) ==
    /\ IF OutsideContext(t)
       THEN /\ c_ev' = [c_ev EXCEPT ![t] = [status |-> "RuntimeError"]]
            /\ UNCHANGED ev_ret
       ELSE LET qry == [iids |-> args.iids, types |-> args.types, start |-> args.start,
                        end |-> args.end, as_of |-> CtxOf(t).as_of]
                res == IF events = {} THEN {} ELSE EventsSelected(events, qry, now)
            IN /\ ev_ret' = [called |-> TRUE, qry |-> qry,
                             as_of |-> IF qry.as_of = None THEN now ELSE qry.as_of,
                             res |-> res]
               /\ c_ev' = [c_ev EXCEPT ![t] = [status |-> "ok", data |-> CtxOf(t).data,
                                               as_of |-> CtxOf(t).as_of, res |-> res]]
    /\ UNCHANGED <<now, ctx, tokens, scopes, c_read, c_exit, c_run, dpVars, events>>
    /\ UNCHANGED otherThanCX

\* AlphaEngine.run_model(data, model, internal_ids, config) up to the call
\* of model.compute_signals(latest); the model requests no feature
RunModel(t, internal_ids, timestamp) ==
    /\ scopes[t] = <<>>
    /\ LET cfg == [start |-> timestamp - LookbackDays, end |-> timestamp,
                   timeframe |-> "1D", as_of |-> None, adjust |-> TRUE]
       IN \E df \in GetBarsOutcomes(bars, ca_df, internal_ids, cfg, now) :
             IF df.rows = {}
             THEN /\ c_run' = [c_run EXCEPT ![t] = [status |-> "empty"]]
                  /\ UNCHANGED <<ctx, tokens, scopes>>
             ELSE /\ c_run' = [c_run EXCEPT ![t] =
                                  [status |-> "running", timestamp |-> timestamp,
                                   latest |-> {r \in df.rows : r.timestamp = timestamp}]]
                  /\ EnterContext(t, "dp", timestamp)
    /\ c_read' = [c_read EXCEPT ![t] = NoCall]
    /\ c_ev' = [c_ev EXCEPT ![t] = NoCall]
    /\ c_exit' = [c_exit EXCEPT ![t] = "none"]
    /\ UNCHANGED <<now, dpVars, evVars>>
    /\ UNCHANGED otherThanCX

\* threads enter, use and leave contexts
CXNext ==
    \/ \E t \in Threads, timestamp \in Stamps : Enter(t, timestamp)
    \/ \E t \in Threads : Exit(t)
    \/ \E t \in Threads : ExitOnError(t)
    \/ \E t \in Threads : ReadAsOf(t)
    \/ \E t \in Threads, args \in ModelEventArgs : ModelGetEvents(t, args)

\* the bars and events written while models run
RunBarBatches == {{MkBar(1000, 1, BaseShape, "1D", tk)} : tk \in {1, 2}}

RunEventInputs == {MkEvent(1000, 1, "NEWS", 1, tk) : tk \in {1, 2}}

\* one thread runs models while bars and events are written
RunNext ==
    \/ Tick
    \/ \E batch \in RunBarBatches : AddBars(batch)
    \/ \E e1 \in RunEventInputs : AddEvents({e1})
    \/ \E timestamp \in {1} : RunModel(1, <<1000>>, timestamp)
    \/ \E args \in ModelEventArgs : ModelGetEvents(1, args)
    \/ Exit(1)

(***************************************************************************)
(* Portfolio optimizer: src/src/core/portfolio_manager.py, optimize.       *)
(* A weights dictionary is a set of <<id, weight>> pairs. The solver is    *)
(* outside the program: its outcome is an input of the optimize action.    *)
(***************************************************************************)
otherThanOP == <<execVars, pmVars, dpVars, smVars, evVars, hyVars, cxVars, rbVars, agVars, cbVars, lkVars, wrVars, btVars>>

\* the keys of the forecasts dictionaries passed to optimize
ForecastKeys == {{}, {1000}, {1000, 1001}}

\* returns_history: the number of its columns and whether the risk model can
\* be estimated from it (a history of NaN cannot); NoHistory stands for None
NoHistory == [cols |-> 0, valid |-> FALSE]
Histories == {NoHistory} \cup [cols : {1, 2}, valid : BOOLEAN]

\* finite values of a weight
WeightValues == {10, 20}

\* the dictionaries over the keys ks with values in vs
RECURSIVE Dicts(_, _)
Dicts(ks, vs) ==
    IF ks = {} THEN {{}}
    ELSE LET k == CHOOSE x \in ks : TRUE
         IN {d \cup {<<k, v>>} : d \in Dicts(ks \ {k}, vs), v \in vs}

Keys(d) == {p[1] : p \in d}

\* np.isfinite on every value
Finite(d) == \A p \in d : p[2] # NaN

\* what cp.Problem(obj).solve() can leave behind for the n variables: an
\* exception, w.value = None, or a vector w.value of floats (nan included)
SolverOutcomes(iids) ==
    {[kind |-> "raise", w |-> {}], [kind |-> "none", w |-> {}]}
        \cup {[kind |-> "value", w |-> d] : d \in Dicts(iids, WeightValues \cup {NaN})}

NotReached == [kind |-> "unreached", w |-> {}]

OPInit ==
    /\ current_weights = {}
    /\ sigma_n = None
    /\ opt_ret = [op |-> "none"]

\* update_risk_model(returns_history)
UpdateRiskModel(hist) ==
    /\ hist.valid
    /\ sigma_n' = hist.cols
    /\ opt_ret' = [op |-> "update_risk_model"]
    /\ UNCHANGED <<now, current_weights>>
    /\ UNCHANGED otherThanOP

\* if w.value is not None
SolutionPresent(outcome) == outcome.kind = "value"

\* optimize(forecasts, returns_history), the solver behaving as `outcome`
Optimize(iids, hist, outcome) ==
    LET n == Cardinality(iids)
        stale == sigma_n = None \/ sigma_n # n
        sigma == IF stale /\ hist.valid THEN hist.cols ELSE sigma_n
        path == IF n = 0 THEN "empty"
                ELSE IF stale /\ hist = NoHistory THEN "no_history"
                ELSE IF stale /\ ~hist.valid THEN "risk_model_error"
                ELSE IF sigma # n THEN "shape_error"
                ELSE "solver"
        commit == path = "solver" /\ SolutionPresent(outcome)
        weights == IF commit THEN outcome.w ELSE current_weights
    IN /\ current_weights' = weights
       /\ sigma_n' = IF path \in {"shape_error", "solver"} THEN sigma ELSE sigma_n
       /\ opt_ret' = [op |-> "optimize", iids |-> iids, hist |-> hist, path |-> path,
                      outcome |-> IF path = "solver" THEN outcome ELSE NotReached,
                      prev |-> current_weights, ret |-> weights]
       /\ UNCHANGED now
       /\ UNCHANGED otherThanOP

OPNext ==
    \/ \E hist \in Histories : UpdateRiskModel(hist)
    \/ \E iids \in ForecastKeys, hist \in Histories :
           \E outcome \in SolverOutcomes(iids) : Optimize(iids, hist, outcome)

(***************************************************************************)
(* Signal combiner: SignalCombiner.combine of src/src/core/alpha_engine.py.*)
(* A signal value or weight is a float counted in sixteenths, rounded as   *)
(* FRound rounds; a dictionary is the set of its <<key, value>> pairs.     *)
(***************************************************************************)
Half == One \div 2

\* the values and the maps handed to combine
SignalValues == {0, One, One + Half}

SignalMaps == UNION {Dicts(ks, SignalValues) : ks \in SUBSET {1, 2}}

\* signals_list: lists of up to MaxMaps maps
SignalLists == UNION {[1..n -> SignalMaps] : n \in 0..MaxMaps}

\* weights: None, or one weight per map
NoWeights == [given |-> FALSE]

WeightLists(n) ==
    {NoWeights} \cup {[given |-> TRUE, list |-> l] : l \in [1..n -> {Half, One}]}

otherThanCB == <<execVars, pmVars, dpVars, smVars, evVars, hyVars, cxVars, opVars, rbVars, agVars, lkVars, wrVars, btVars>>

CBInit == cb_ret = [called |-> FALSE]

\* val * weight
FMul(a, b) == FRound(a * b, One)

\* [1.0 / len(signals_list)] * len(signals_list)
DefaultWeights(n) == [i \in 1..n |-> FDiv(One, n)]

\* combined[iid] = combined.get(iid, 0.0) + val * weight
AccumulateOverwriting(prev, val, weight) == FMul(val, weight)
Accumulate(prev, val, weight) == FAdd(prev, FMul(val, weight))

\* for iid, val in signals.items(): the dictionary after one map
AddSignals(combined, signals, weight) ==
    {p \in combined : p[1] \notin Keys(signals)}
    \cup {<<p[1], Accumulate(DictGet(combined, p[1]), p[2], weight)>> : p \in signals}

\* for signals, weight in zip(signals_list, weights): zip stops at the
\* shorter list
RECURSIVE CombineFrom(_, _, _, _)
CombineFrom(combined, signals_list, weights, i) ==
    IF i > Len(signals_list) \/ i > Len(weights) THEN combined
    ELSE CombineFrom(AddSignals(combined, signals_list[i], weights[i]),
                     signals_list, weights, i + 1)

\* SignalCombiner.combine(signals_list, weights)
Combine(signals_list, weights) ==
    IF signals_list = <<>> THEN {}
    ELSE CombineFrom({}, signals_list,
                     IF weights.given THEN weights.list
                     ELSE DefaultWeights(Len(signals_list)), 1)

\* SignalCombiner.combine called by the driver
CombineCall(signals_list, weights) ==
    /\ cb_ret' = [called |-> TRUE, signals_list |-> signals_list, weights |-> weights,
                  result |-> Combine(signals_list, weights)]
    /\ UNCHANGED now
    /\ UNCHANGED otherThanCB

\* the driver calls combine once in a run
CBNext ==
    \/ /\ ~cb_ret.called
       /\ \E signals_list \in SignalLists :
             \E weights \in WeightLists(Len(signals_list)) :
                 CombineCall(signals_list, weights)

(***************************************************************************)
(* The scheduler with its lock: vwap_execute and the worker's partition    *)
(* taken apart at the points where another thread can run in between.      *)
(***************************************************************************)
otherThanLock == <<pmVars, dpVars, smVars, evVars, hyVars, cxVars, opVars, rbVars, agVars, cbVars, wrVars, btVars>>

LKInit ==
    /\ lock = "none"
    /\ vpc = "idle"
    /\ venq = <<>>

\* vwap_execute lines 124-129: the parent order is built and appended to
\* self.orders, the slice quantity and the clock are read; the lock is not
\* taken before line 131
VwapCreate(ticker, total_qty, side, slices, interval) ==
    /\ dpc = "idle"
    /\ vpc = "idle"
    /\ Len(orders) < MaxOrders
    /\ LET oid == Len(orders) + 1
       IN /\ orders' = Append(orders, NewOrder(oid, ticker, total_qty, side))
          /\ venq' = NewChildren(oid, total_qty, slices, interval, now)
    /\ cancel_ret' = Append(cancel_ret, "none")
    /\ subs' = Append(subs, 0)
    /\ leak' = Append(leak, 0)
    /\ subs_after_cancel' = Append(subs_after_cancel, 0)
    /\ rejected' = Append(rejected, FALSE)
    /\ nslices' = Append(nslices, slices)
    /\ vpc' = "acquire"
    /\ UNCHANGED <<now, queue, wpc, wnow, to_fire, success, dpc, dorder, check_state, lock>>
    /\ UNCHANGED otherThanLock

\* vwap_execute line 131: with self._lock, entered when nobody holds it
VwapAcquire ==
    /\ vpc = "acquire"
    /\ lock = "none"
    /\ lock' = "driver"
    /\ vpc' = "enqueue"
    /\ UNCHANGED <<now, execVars, venq>>
    /\ UNCHANGED otherThanLock

\* vwap_execute lines 132-140: the children are appended, the queue is
\* sorted, and the lock is released on leaving the with block
VwapEnqueue ==
    /\ vpc = "enqueue"
    /\ queue' = SortQueue(queue \o venq)
    /\ venq' = <<>>
    /\ lock' = "none"
    /\ vpc' = "idle"
    /\ UNCHANGED <<now, rejected, nslices, orders, wpc, wnow, to_fire, success, dpc,
                   dorder, cancel_ret, subs, leak, subs_after_cancel, check_state>>
    /\ UNCHANGED otherThanLock

\* _execution_loop line 89: with self._lock, entered when nobody holds it
WorkerAcquire ==
    /\ wpc = "partition"
    /\ lock = "none"
    /\ lock' = "worker"
    /\ wpc' = "take"
    /\ UNCHANGED <<now, rejected, nslices, orders, queue, wnow, to_fire, success, dpc,
                   dorder, cancel_ret, subs, leak, subs_after_cancel, check_state,
                   vpc, venq>>
    /\ UNCHANGED otherThanLock

\* _execution_loop line 90: to_fire = the children that are due
WorkerTake ==
    /\ wpc = "take"
    /\ to_fire' = DueChildren(queue, wnow)
    /\ wpc' = "keep"
    /\ UNCHANGED <<now, rejected, nslices, orders, queue, wnow, success, dpc, dorder,
                   cancel_ret, subs, leak, subs_after_cancel, check_state, lkVars>>
    /\ UNCHANGED otherThanLock

\* _execution_loop line 91: self._queue = the children that are not due; the
\* lock is released on leaving the with block
WorkerKeep ==
    /\ wpc = "keep"
    /\ queue' = LaterChildren(queue, wnow)
    /\ lock' = "none"
    /\ wpc' = "check"
    /\ UNCHANGED <<now, rejected, nslices, orders, wnow, to_fire, success, dpc, dorder,
                   cancel_ret, subs, leak, subs_after_cancel, check_state, vpc, venq>>
    /\ UNCHANGED otherThanLock

\* total quantity and slice count of an order
LockOrders == FillQtys \X FillSlices

\* the driver thread calls vwap_execute and cancel_order one after the other,
\* the worker thread runs _execution_loop, and the broker accepts or refuses
LockNext ==
    \/ Tick
    \/ \E qn \in LockOrders, iv \in Intervals :
          VwapCreate("AAPL", qn[1], "BUY", qn[2], iv)
    \/ VwapAcquire
    \/ VwapEnqueue
    \/ WorkerReadNow
    \/ WorkerAcquire
    \/ WorkerTake
    \/ WorkerKeep
    \/ WorkerCheck
    \/ \E ok \in BOOLEAN : WorkerSubmit(ok)
    \/ WorkerUpdateFill
    \/ WorkerUpdateState
    \/ WorkerReject
    \/ WorkerSleep
    \/ \E oid \in 1..MaxOrders : vpc = "idle" /\ CancelCheck(oid)
    \/ CancelWrite

(***************************************************************************)
(* add_bars called from two threads: the stream handler through            *)
(* ExecutionHandler.on_bar and the driver. _write_ts reads the table,      *)
(* concatenates and writes it back, and the other thread can run between   *)
(* the read and the write.                                                 *)
(***************************************************************************)
Writers == {"stream", "driver"}

otherThanWrite == <<execVars, pmVars, smVars, evVars, hyVars, cxVars, opVars, rbVars, agVars, cbVars, lkVars, btVars>>

WRInit ==
    /\ wr_pc = [t \in Writers |-> "idle"]
    /\ wr_cur = [t \in Writers |-> {}]
    /\ wr_df = [t \in Writers |-> {}]
    /\ wr_done = {}

\* add_bars lines 244-245 and _write_ts lines 129-133: thread t builds df_new
\* and reads current_data from the library
WriteRead(t, batch) ==
    /\ wr_pc[t] = "idle"
    /\ wr_pc' = [wr_pc EXCEPT ![t] = "write"]
    /\ wr_cur' = [wr_cur EXCEPT ![t] = bars]
    /\ wr_df' = [wr_df EXCEPT ![t] = batch]
    /\ UNCHANGED <<now, dpVars, wr_done>>
    /\ UNCHANGED otherThanWrite

\* _write_ts lines 134-138 and add_bars lines 247-248: thread t writes
\* current_data plus its rows as the new version of the table, and add_bars
\* returns because aggregate_to is empty
WriteBack(t) ==
    /\ wr_pc[t] = "write"
    /\ aggregate_to = <<>>
    /\ TableSize(WriteTs(wr_cur[t], wr_df[t])) <= MaxBars
    /\ bars' = WriteTs(wr_cur[t], wr_df[t])
    /\ last_query' = NoQuery
    /\ wr_done' = wr_done \cup wr_df[t]
    /\ wr_pc' = [wr_pc EXCEPT ![t] = "idle"]
    /\ wr_cur' = [wr_cur EXCEPT ![t] = {}]
    /\ wr_df' = [wr_df EXCEPT ![t] = {}]
    /\ UNCHANGED <<now, ca_df>>
    /\ UNCHANGED otherThanWrite

\* on_bar hands add_bars one bar; the driver does the same here
WriteBatches == {{MkBar(1000, ts, BaseShape, "1min", ts)} : ts \in Times}

\* the two threads write minute bars
WriteNext ==
    \/ \E t \in Writers, batch \in WriteBatches : WriteRead(t, batch)
    \/ \E t \in Writers : WriteBack(t)

(***************************************************************************)
(* Backtest engine: BacktestEngine.run of src/src/backtesting/engine.py.   *)
(* One step is one pass of the loop over the two decision times of a day.  *)
(* The equity handed to check_safety is the last point of the simulated    *)
(* equity curve and the weights are the optimizer's; both are results of   *)
(* the simulation and are drawn from the inputs.                           *)
(***************************************************************************)
otherThanBT == <<execVars, dpVars, smVars, evVars, hyVars, cxVars, rbVars, agVars, cbVars, lkVars, wrVars>>

\* self.status = "ACTIVE"
BTInit == bt_status = "ACTIVE"

\* the weights pm.optimize leaves in current_weights
CycleWeights == {{}} \cup Dicts({1000}, WeightValues)

\* run lines 129-130 and 157-202: unless the status is KILLED, check_safety is
\* called; when it returns false the status becomes KILLED and the loops are
\* left, otherwise the cycle runs and the optimizer sets the weights
BacktestCycle(equity, weights) ==
    /\ bt_status # "KILLED"
    /\ CheckSafetyCall(equity)
    /\ IF pm_ret' = "false"
       THEN /\ bt_status' = "KILLED"
            /\ UNCHANGED current_weights
       ELSE /\ current_weights' = weights
            /\ UNCHANGED bt_status
    /\ UNCHANGED <<sigma_n, opt_ret>>
    /\ UNCHANGED otherThanBT

\* a backtest on a manager whose limits are set before or between the cycles
BTNext ==
    \/ Tick
    \/ \E m \in MaxMsgsChoices, d \in MaxDDChoices : SetSafetyLimits(m, d)
    \/ \E e \in Equities, w \in CycleWeights : BacktestCycle(e, w)

(***************************************************************************)
(* Specifications.                                                         *)
(***************************************************************************)
\* the state after construction of the handler, the manager and the platform
Init ==
    /\ now = 0
    /\ ExecInit
    /\ PMInit
    /\ DPInit
    /\ SMInit
    /\ EVInit
    /\ HYInit
    /\ CXInit
    /\ OPInit
    /\ RBInit
    /\ AGInit
    /\ CBInit
    /\ LKInit
    /\ WRInit
    /\ BTInit

SpecExec == Init /\ [][ExecNext]_vars

SpecReb == Init /\ [][RebNext]_vars

\* the worker thread runs forever and time passes
SpecFill == Init /\ [][FillNext]_vars /\ WF_vars(FillWorker) /\ WF_vars(Tick)

\* the worker thread is scheduled as long as it runs, and time passes
SpecLive == Init /\ [][LiveNext]_vars /\ WF_vars(LiveWorker) /\ WF_vars(Tick)

SpecPM == Init /\ [][PMNext]_vars

SpecIds == Init /\ [][IdNext]_vars

SpecDP == Init /\ [][DPNext]_vars

SpecCA == Init /\ [][CANext]_vars

SpecAgg == Init /\ [][AggNext]_vars

SpecAdj == Init /\ [][AdjNext]_vars

SpecSM == Init /\ [][SMNext]_vars

SpecEV == Init /\ [][EVNext]_vars

SpecHY == Init /\ [][HYNext]_vars

SpecCtx == Init /\ [][CXNext]_vars

SpecRun == Init /\ [][RunNext]_vars

SpecOP == Init /\ [][OPNext]_vars

SpecCB == Init /\ [][CBNext]_vars

SpecLock == Init /\ [][LockNext]_vars

SpecWrite == Init /\ [][WriteNext]_vars

SpecBT == Init /\ [][BTNext]_vars

(***************************************************************************)
(* Claims about the execution scheduler (checked under SpecExec).          *)
(***************************************************************************)
OrderIds == 1..Len(orders)

\* C1 (as stated): once a parent order's state is FILLED, CANCELLED or
\* REJECTED, the worker makes no further backend.submit_order call for a
\* child of that order.
C1_NoSubmitAfterTerminal ==
    [][\A o \in OrderIds : Terminal(orders[o].state) => subs'[o] = subs[o]]_vars

\* C1 (amended): a submission is started only from an is_active check that
\* saw the parent ACTIVE, so for as long as a parent stays terminal at most
\* one child of it is submitted (the one whose check had already passed).
C1_AtMostOneSubmitWhileTerminal ==
    /\ \A o \in OrderIds : leak[o] <= 1
    /\ wpc = "submit" => is_active(check_state)

\* C1 witness: a child was submitted for a parent that was already terminal,
\* and the parent is still terminal after the worker finished that child.
C1_Witness ==
    \E o \in OrderIds :
        /\ Terminal(orders[o].state)
        /\ leak[o] = 1
        /\ wpc = "check"

\* C2: a terminal state is absorbing: no step changes the state or the
\* filled_qty of an order whose state is FILLED, CANCELLED or REJECTED.
C2_TerminalAbsorbing ==
    [][\A o \in OrderIds :
          Terminal(orders[o].state) =>
              /\ orders'[o].state = orders[o].state
              /\ orders'[o].filled_qty = orders[o].filled_qty]_vars

\* C3: after cancel_order(order_id) has returned true, at most one further
\* child of that order is submitted to the broker.
C3_AtMostOneSubmitAfterCancel ==
    \A o \in OrderIds : subs_after_cancel[o] <= 1


(***************************************************************************)
(* Claims about the safety rails (checked under SpecPM).                   *)
(***************************************************************************)
\* C4: kill-switch absorption: once killed is true it is never reset, and
\* every later check_safety call returns false whatever its equity argument
\* and whenever it is made.
C4_KillSwitchAbsorbing ==
    [][killed => /\ killed'
                 /\ (pm_calls' # pm_calls => pm_ret' = "false")]_vars

\* C4 witness: a call made after the kill, with an equity back at the peak
\* and the rate limit not exhausted, was refused.
C4_Witness ==
    /\ killed
    /\ pm_killed_at_entry
    /\ pm_arg >= peak_equity
    /\ msg_count < max_msgs
    /\ pm_ret = "false"

(***************************************************************************)
(* Claims about the bars of the data platform (checked under SpecDP, and   *)
(* under SpecCA where corporate actions are involved).                     *)
(***************************************************************************)
\* C5: bitemporal monotonicity: over the stored table, for as_of1 <= as_of2
\* every row returned at as_of1 is matched at as_of2 by a row of the same
\* (internal_id, timestamp) that is the same row or has a strictly greater
\* timestamp_knowledge; in particular its key is still returned at as_of2.
\* (Two queries that select the same rows sort the same frame and return the
\* same frame, so two different frames are compared only when the queries
\* select different rows.)
C5_BitemporalMonotone ==
    \A iids \in IidLists, c1 \in RawQueryConfigs, c2 \in RawQueryConfigs :
        (c1.as_of # None /\ c2.as_of # None /\ c1.as_of <= c2.as_of) =>
        \A f1 \in GetBarsOutcomes(bars, ca_df, iids, c1, now),
           f2 \in GetBarsOutcomes(bars, ca_df, iids, c2, now) :
            (f1 = f2 \/ Visible(bars, iids, c1, now) # Visible(bars, iids, c2, now)) =>
            \A r1 \in f1.rows :
                \E r2 \in f2.rows :
                    /\ KeyOf(r2) = KeyOf(r1)
                    /\ \/ r2 = r1
                       \/ r1.timestamp_knowledge < r2.timestamp_knowledge

\* C6: point-in-time projection: the frame get_bars returned holds exactly
\* one row for each (internal_id, timestamp) that has a stored version of the
\* requested ids, timeframe and window with timestamp_knowledge <= as_of,
\* that row is such a stored version, none of the others is known later than
\* it, and there is no row for any other key.
C6_PointInTimeProjection ==
    (last_query.called /\ (~last_query.cfg.adjust \/ ca_df = {})) =>
        LET vis == Visible(bars, last_query.iids, last_query.cfg, last_query.as_of)
            rows == last_query.res.rows
        IN /\ \A v \in vis : Cardinality({r \in rows : KeyOf(r) = KeyOf(v)}) = 1
           /\ \A r \in rows :
                 /\ r \in vis
                 /\ \A o \in vis : KeyOf(o) = KeyOf(r) =>
                        o.timestamp_knowledge <= r.timestamp_knowledge

\* C7 (as stated): snapshot stability: for a past as_of = T and adjust =
\* false, the results get_bars can return are the same before and after any
\* add_bars call.
C7_SnapshotStable ==
    [][bars' # bars =>
          \A iids \in IidLists, cfg \in QueryConfigs :
              (cfg.as_of # None /\ cfg.as_of < now /\ ~cfg.adjust) =>
                  GetBarsOutcomes(bars', ca_df', iids, cfg, now')
                      = GetBarsOutcomes(bars, ca_df, iids, cfg, now)]_vars

\* C7 (amended): for as_of = T and adjust = false, the results get_bars can
\* return are the same before and after any add_bars call whose bars all
\* carry a timestamp_knowledge greater than T.
C7_SnapshotStableForLaterKnowledge ==
    [][bars' # bars =>
          \A iids \in IidLists, cfg \in QueryConfigs :
              ( /\ cfg.as_of # None /\ ~cfg.adjust
                /\ \A p \in bars' \ bars : p[1].timestamp_knowledge > cfg.as_of ) =>
                  GetBarsOutcomes(bars', ca_df', iids, cfg, now')
                      = GetBarsOutcomes(bars, ca_df, iids, cfg, now)]_vars

\* C7 witness: a query with a past as_of and adjust = false was answered
\* while the table held a bar of the requested ids and timeframe that became
\* known after as_of, and the answer has no row for that bar's key.
C7_Witness ==
    /\ last_query.called
    /\ last_query.cfg.as_of # None
    /\ last_query.cfg.as_of < now
    /\ ~last_query.cfg.adjust
    /\ last_query.res.rows # {}
    /\ \E r \in RowsOf(bars) :
          /\ r.internal_id \in SeqToSet(last_query.iids)
          /\ r.timeframe = last_query.cfg.timeframe
          /\ r.timestamp_knowledge > last_query.cfg.as_of
          /\ \A x \in last_query.res.rows : KeyOf(x) # KeyOf(r)

\* C8: point-in-time correctness of adjusted queries: for a past as_of = T
\* and adjust = true, recording a corporate action with add_ca does not
\* change the results get_bars can return.
C8_AdjustedPointInTime ==
    [][ca_df' # ca_df =>
          \A iids \in IidLists, cfg \in QueryConfigs :
              (cfg.as_of # None /\ cfg.as_of < now /\ cfg.adjust) =>
                  GetBarsOutcomes(bars', ca_df', iids, cfg, now')
                      = GetBarsOutcomes(bars, ca_df, iids, cfg, now)]_vars

C10_StoredBarsValid ==
    LET Valid(r) ==
            /\ NaN \notin {r.open, r.high, r.low, r.close, r.volume}
            /\ r.high >= r.open /\ r.high >= r.close /\ r.high >= r.low
            /\ r.low <= r.open /\ r.low <= r.close
            /\ r.volume >= 0
            /\ r.close > 0
    IN /\ \A r \in RowsOf(bars) : Valid(r)
       /\ last_query.called => \A r \in last_query.res.rows : Valid(r)

(***************************************************************************)
(* Claims about the security master (checked under SpecSM).                *)
(***************************************************************************)
\* C11: security-master invariant: for every ticker, the [start, end]
\* intervals recorded for distinct internal_ids do not overlap.
C11_NoOverlap ==
    \A i \in DOMAIN sec_df, j \in DOMAIN sec_df :
        ( /\ sec_df[i].ticker = sec_df[j].ticker
          /\ sec_df[i].internal_id # sec_df[j].internal_id ) =>
            \/ sec_df[i].end < sec_df[j].start
            \/ sec_df[j].end < sec_df[i].start

\* C12: get_internal_id(ticker, date): when a record of the ticker contains
\* date the call adds nothing and returns the id of such a record; when none
\* does it adds one record of the ticker with start = date and returns the
\* id of that record.
C12_GetInternalId ==
    [][sm_ret'.op = "get_internal_id" =>
          LET date == sm_ret'.start
              containing == {i \in DOMAIN sec_df :
                                /\ sec_df[i].ticker = sm_ret'.ticker
                                /\ sec_df[i].start <= date
                                /\ date <= sec_df[i].end}
          IN IF containing # {}
             THEN /\ sec_df' = sec_df
                  /\ sm_ret'.ret \in {sec_df[i].internal_id : i \in containing}
             ELSE /\ Len(sec_df') = Len(sec_df) + 1
                  /\ SubSeq(sec_df', 1, Len(sec_df)) = sec_df
                  /\ sec_df'[Len(sec_df')].ticker = sm_ret'.ticker
                  /\ sec_df'[Len(sec_df')].start = date
                  /\ sec_df'[Len(sec_df')].internal_id = sm_ret'.ret]_vars

\* C13: register_security without an explicit id: when a record of the
\* ticker covers the requested interval the call adds no row and returns the
\* id of such a record; otherwise it adds exactly one record, whose id is
\* the one returned, is at least 1000 and is greater than every id minted
\* before.
C13_RegisterWithoutId ==
    [][(sm_ret'.op = "register_security" /\ sm_ret'.internal_id = None) =>
          LET covering == {i \in DOMAIN sec_df :
                              /\ sec_df[i].ticker = sm_ret'.ticker
                              /\ sec_df[i].start <= sm_ret'.start
                              /\ sm_ret'.end <= sec_df[i].end}
          IN IF covering # {}
             THEN /\ sec_df' = sec_df
                  /\ sm_ret'.ret \in {sec_df[i].internal_id : i \in covering}
             ELSE /\ Len(sec_df') = Len(sec_df) + 1
                  /\ SubSeq(sec_df', 1, Len(sec_df)) = sec_df
                  /\ sec_df'[Len(sec_df')].internal_id = sm_ret'.ret
                  /\ sm_ret'.ret >= FirstId
                  /\ \A m \in minted : m < sm_ret'.ret]_vars

(***************************************************************************)
(* Claims about the events of the data platform (checked under SpecEV).    *)
(***************************************************************************)
\* C14: get_events applies the bitemporal projection: no returned event has
\* timestamp_knowledge > as_of, and for each (internal_id, timestamp,
\* event_type) exactly one version is returned, one that no other selected
\* version of the key is known later than.
C14_EventsProjection ==
    ev_ret.called =>
        LET sel == EventsSelected(events, ev_ret.qry, ev_ret.as_of)
            EvKey(r) == <<r.internal_id, r.timestamp, r.event_type>>
        IN /\ \A p \in ev_ret.res : p[1].timestamp_knowledge <= ev_ret.as_of
           /\ \A p \in sel : Cardinality({x \in ev_ret.res : EvKey(x[1]) = EvKey(p[1])}) = 1
           /\ \A x \in ev_ret.res :
                 /\ x \in sel
                 /\ \A p \in sel : EvKey(p[1]) = EvKey(x[1]) =>
                        p[1].timestamp_knowledge <= x[1].timestamp_knowledge

(***************************************************************************)
(* Claims about the alpha engine (checked under SpecHY, SpecCtx, SpecRun). *)
(***************************************************************************)
\* C15: feature dependency closure: whenever a feature's compute is invoked
\* every registered transitive dependency of it has already written its
\* column, and no feature's compute is invoked more than once in the call.
C15_DependencyClosure ==
    /\ \A k \in DOMAIN h_log : TransitiveDeps(h_log[k].f) \subseteq h_log[k].cols
    /\ \A j \in DOMAIN h_log, k \in DOMAIN h_log : j # k => h_log[j].f # h_log[k].f

\* C15 witness: "a" was requested with dependencies b and c, where b depends
\* on c too, and the call finished with c, b, a computed in that order.
C15_Witness ==
    /\ h_pc = "done"
    /\ FEATURES = {"a", "b", "c"}
    /\ FEATURE_DEPS["a"] = <<"b", "c">>
    /\ FEATURE_DEPS["b"] = <<"c">>
    /\ Len(h_log) = 3
    /\ h_log[1].f = "c" /\ h_log[2].f = "b" /\ h_log[3].f = "a"

\* C16: nested scope semantics of alpha_context: whenever a thread leaves a
\* scope, by return or by an exception, its (data, as_of) are those of the
\* enclosing scope, which were in effect before entry, and 'no context' when
\* the scope left was the outermost one.
C16_NestedScopes ==
    [][\A t \in Threads :
          Len(scopes'[t]) < Len(scopes[t]) =>
              ctx'[Slot(t)] = IF scopes'[t] = <<>> THEN NoContext
                              ELSE scopes'[t][Len(scopes'[t])]]_vars

\* C16 witness: a thread left an inner scope by an exception and is back in
\* the outer scope, where it has read context_as_of again.
C16_Witness ==
    \E t \in Threads :
        /\ c_exit[t] = "error"
        /\ Len(scopes[t]) = 1
        /\ ctx[t] = scopes[t][1]
        /\ c_read[t].status = "read"

\* C17: context isolation: whatever the interleaving, a context_as_of read
\* returns the as_of of the reading thread's innermost open scope (None when
\* it has none) and an AlphaModel.get_events call queries with the (data,
\* as_of) of the calling thread's innermost open scope.
C17_ContextIsolation ==
    \A t \in Threads :
        /\ c_read[t].status = "read" =>
              c_read[t].as_of = IF scopes[t] = <<>> THEN None
                                ELSE scopes[t][Len(scopes[t])].as_of
        /\ c_ev[t].status = "ok" =>
              /\ scopes[t] # <<>>
              /\ c_ev[t].as_of = scopes[t][Len(scopes[t])].as_of
              /\ c_ev[t].data = scopes[t][Len(scopes[t])].data

\* C17 witness: both threads are inside a context, with different as_of
\* values, and each has read context_as_of and called get_events there.
C17_Witness ==
    /\ \A t \in Threads : /\ scopes[t] # <<>>
                          /\ c_read[t].status = "read"
                          /\ c_ev[t].status = "ok"
    /\ c_read[1].as_of # c_read[2].as_of

\* C18: an AlphaModel.get_events call made by a thread that has no open
\* alpha_context scope raises RuntimeError and leaves the platform unqueried.
C18_GetEventsOutsideContext ==
    [][\A t \in Threads :
          (c_ev'[t] # c_ev[t] /\ c_ev'[t].status # "none" /\ scopes[t] = <<>>) =>
              /\ c_ev'[t].status = "RuntimeError"
              /\ ev_ret' = ev_ret]_vars

\* C18 witness: a thread that had entered and left a context called
\* get_events afterwards and got RuntimeError.
C18_Witness ==
    \E t \in Threads :
        /\ c_exit[t] # "none"
        /\ scopes[t] = <<>>
        /\ c_ev[t].status = "RuntimeError"

\* C19: a model run at timestamp T sees data as of T: every bar version of
\* the frame handed to compute_signals and every event AlphaModel.get_events
\* returned during the run has timestamp_knowledge <= T.
C19_RunSeesAsOfT ==
    \A t \in Threads :
        c_run[t].status = "running" =>
            /\ \A r \in c_run[t].latest : r.timestamp_knowledge <= c_run[t].timestamp
            /\ c_ev[t].status = "ok" =>
                  \A p \in c_ev[t].res : p[1].timestamp_knowledge <= c_run[t].timestamp

\* C20: rate limit: while the kill switch is not set, among the check_safety
\* calls made under one limit max_msgs, those that return true within any
\* interval shorter than one second number at most max_msgs.
C20_RateLimit ==
    \A i \in DOMAIN pm_true, j \in DOMAIN pm_true :
        (/\ i <= j
         /\ pm_true[j].ts - pm_true[i].ts < TicksPerSecond
         /\ \A k \in i..j : pm_true[k].max_msgs = pm_true[i].max_msgs)
        => j - i + 1 <= pm_true[i].max_msgs

\* C21: kill trigger: a check_safety(equity) call made while killed is false
\* raises the peak to max(peak, equity), sets killed, and then returns false,
\* exactly when (equity - peak') / peak' < max_drawdown for the new peak; the
\* peak never decreases, and a call refused by the rate limit alone leaves
\* killed false.
C21_KillTrigger ==
    [][/\ peak_equity' >= peak_equity
       /\ (pm_calls' # pm_calls /\ ~killed) =>
             LET newPeak == IF pm_arg' > peak_equity THEN pm_arg' ELSE peak_equity
             IN /\ peak_equity' = newPeak
                /\ killed' <=> (pm_arg' - newPeak) * 100 < max_dd * newPeak
                /\ killed' => pm_ret' = "false"]_vars

\* C21 witness: after the peak had been raised above the initial equity, a
\* call on a live manager breached the drawdown measured from the raised peak
\* (and not from the initial equity) and set the kill switch.
C21_Witness ==
    /\ killed
    /\ ~pm_killed_at_entry
    /\ peak_equity > InitialEquity
    /\ (pm_arg - peak_equity) * 100 < max_dd * peak_equity
    /\ ~((pm_arg - InitialEquity) * 100 < max_dd * InitialEquity)
    /\ pm_ret = "false"

(***************************************************************************)
(* Claims about the portfolio optimizer (checked under SpecOP).            *)
(***************************************************************************)
\* C22: optimizer failure semantics: optimize returns current_weights, and
\* leaves it as it was when forecasts is empty, when the cached risk model's
\* dimension differs from the number of forecasts and no returns_history is
\* given, and when the solver raises, yields no solution or yields a
\* non-finite solution; only a successful solve replaces current_weights, and
\* then its keys are exactly the forecast ids.
C22_OptimizerFailure ==
    opt_ret.op = "optimize" =>
        LET failed == \/ opt_ret.path \in {"empty", "no_history"}
                      \/ opt_ret.path = "solver"
                           /\ \/ opt_ret.outcome.kind \in {"raise", "none"}
                              \/ ~Finite(opt_ret.outcome.w)
            solved == /\ opt_ret.path = "solver"
                      /\ opt_ret.outcome.kind = "value"
                      /\ Finite(opt_ret.outcome.w)
        IN /\ opt_ret.ret = current_weights
           /\ failed => current_weights = opt_ret.prev
           /\ current_weights # opt_ret.prev => solved
           /\ solved => Keys(current_weights) = opt_ret.iids

(***************************************************************************)
(* Further claims about the execution scheduler (checked under SpecExec,   *)
(* SpecFill and SpecReb).                                                  *)
(***************************************************************************)
\* C23: rejection: when backend.submit_order returns false for a child, the
\* worker's next write sets the parent's state to REJECTED, and from that
\* return on the parent's filled_qty keeps the quantity of the children
\* accepted before and no further child of that parent is submitted.
C23_Rejection ==
    [][\A o \in OrderIds :
          /\ (wpc = "reject" /\ wpc' # "reject" /\ Head(to_fire).parent = o) =>
                orders'[o].state = "REJECTED"
          /\ rejected[o] =>
                /\ subs'[o] = subs[o]
                /\ orders'[o].filled_qty = orders[o].filled_qty
                /\ (wpc # "reject" => ~is_active(orders'[o].state))]_vars

\* C23 witness: the first child of an order was accepted and the second one
\* refused: the order is REJECTED with the first child's quantity filled,
\* and the worker has finished the batch.
C23_Witness ==
    \E o \in OrderIds :
        /\ rejected[o]
        /\ orders[o].state = "REJECTED"
        /\ orders[o].filled_qty > 0
        /\ subs[o] = 2
        /\ wpc = "loop"

\* the children of order o whose submission has not been completed
Pending(o) ==
    Cardinality({i \in DOMAIN queue : queue[i].parent = o})
        + Cardinality({i \in DOMAIN to_fire : to_fire[i].parent = o})

\* C24: full execution: when the broker accepts every submission and the
\* order is never cancelled, an order created by vwap_execute(ticker, q,
\* side, slices = n) is SUBMITTED until its first fill, PARTIAL after each
\* of the first n - 1 fills, FILLED with filled_qty = q after its n
\* submissions, and it eventually becomes FILLED.
C24_FullExecution ==
    /\ [](\A o \in OrderIds :
             LET fills == nslices[o] - Pending(o)
             IN /\ fills = 0 => orders[o].state = "SUBMITTED"
                /\ (0 < fills /\ fills < nslices[o]) => orders[o].state = "PARTIAL"
                /\ fills = nslices[o] => /\ orders[o].state = "FILLED"
                                         /\ orders[o].filled_qty = orders[o].quantity
                                         /\ subs[o] = nslices[o])
    /\ \A o \in 1..MaxOrders :
          (Len(orders) >= o) ~> (Len(orders) >= o /\ orders[o].state = "FILLED")

\* C25: cancel_order(order_id) returns true and sets the order's state to
\* CANCELLED exactly when the order exists and the state it acts on is
\* PENDING, SUBMITTED or PARTIAL; otherwise it returns false and changes no
\* order's state; it never changes a filled_qty or the child queue.
C25_CancelOrder ==
    [][(dpc' # dpc \/ (Len(orders') = Len(orders) /\ cancel_ret' # cancel_ret)) =>
          /\ queue' = queue
          /\ \A o \in OrderIds :
                /\ orders'[o].filled_qty = orders[o].filled_qty
                /\ orders'[o].state # orders[o].state => cancel_ret'[o] = "true"
                /\ (dpc = "cancel_write" /\ dorder = o) =>
                      /\ cancel_ret'[o] = "true"
                      /\ orders'[o].state = "CANCELLED"
                      /\ is_active(orders[o].state)
                /\ (dpc = "idle" /\ dpc' = "idle") => orders'[o].state = orders[o].state]_vars

C27_IdempotentWrites ==
    [][(\E batch \in MinuteBatches : batch \subseteq RowsOf(bars) /\ AddBars(batch))
          => \A cfg \in AggQueryConfigs :
                GetBarsOutcomes(bars', ca_df', <<1000>>, cfg, now')
                    = GetBarsOutcomes(bars, ca_df, <<1000>>, cfg, now)]_vars

\* the identity, the window and the values of a returned row
Ohlcv(r) ==
    [internal_id |-> r.internal_id, timestamp |-> r.timestamp, open |-> r.open,
     high |-> r.high, low |-> r.low, close |-> r.close, volume |-> r.volume]

\* the row the claim asks for one (id, window start): open = first,
\* high = max, low = min, close = last, volume = sum over the minute rows
ResampledRow(rows, iid, start) ==
    LET mine == {r \in rows : r.internal_id = iid /\ WindowStart(r.timestamp, "2min") = start}
        first == CHOOSE r \in mine : \A o \in mine : r.timestamp <= o.timestamp
        last == CHOOSE r \in mine : \A o \in mine : o.timestamp <= r.timestamp
    IN [internal_id |-> iid, timestamp |-> start, open |-> first.open,
        high |-> SetMax({r.high : r \in mine}), low |-> SetMin({r.low : r \in mine}),
        close |-> last.close,
        volume |-> VolumeSum({<<r, 1>> : r \in mine})]

\* the frames the claim allows for a query of a higher intraday timeframe
\* that selects no stored row: the minute frames of the same window,
\* resampled
ResampledFrames(q) ==
    {{ResampledRow(f.rows, k[1], k[2]) :
          k \in {<<r.internal_id, WindowStart(r.timestamp, "2min")>> : r \in f.rows}} :
       f \in GetBarsOutcomes(bars, ca_df, q.iids,
                             [q.cfg EXCEPT !.timeframe = "1min", !.as_of = q.as_of], q.as_of)}

\* C29: a get_bars query for an intraday timeframe above the minimum one
\* that finds no stored bar of that timeframe in its window returns one row
\* per (id, window start), built from the minute bars of the window with
\* open = first, high = max, low = min, close = last, volume = sum.
C29_OnReadResampling ==
    (/\ last_query.called
     /\ last_query.cfg.timeframe = "2min"
     /\ Visible(bars, last_query.iids, [last_query.cfg EXCEPT !.as_of = last_query.as_of],
                last_query.as_of) = {})
        => {Ohlcv(r) : r \in last_query.res.rows} \in ResampledFrames(last_query)

\* the corporate actions the claim applies to a bar: those of its id with
\* timestamp < ex_date <= end
ClaimedActions(raw, cas, end) ==
    {c \in cas : /\ c.internal_id = raw.internal_id
                 /\ raw.timestamp < c.ex_date
                 /\ c.ex_date <= end}

\* the claim's transformation, newest ex_date first; the cumulative factor
\* f is 1 / fdiv: a SPLIT of ratio r multiplies by 1 / r and sets f to
\* f / r, a DIVIDEND of amount d subtracts d * f
RECURSIVE ClaimedAdjustment(_, _, _)
ClaimedAdjustment(row, cas, fdiv) ==
    IF cas = {} THEN row
    ELSE LET c == CHOOSE x \in cas : \A y \in cas : y.ex_date <= x.ex_date
             Price(p) == IF c.type = "SPLIT" THEN p \div c.value
                         ELSE IF c.type = "DIVIDEND" THEN p - c.value \div fdiv
                         ELSE p
         IN ClaimedAdjustment(
                [row EXCEPT !.open = Price(@), !.high = Price(@),
                            !.low = Price(@), !.close = Price(@)],
                cas \ {c},
                IF c.type = "SPLIT" THEN fdiv * c.value ELSE fdiv)

\* the frame the same query returns with adjust = False
RawFrames(q) ==
    GetBarsOutcomes(bars, ca_df, q.iids,
                    [q.cfg EXCEPT !.adjust = FALSE, !.as_of = q.as_of], q.as_of)

\* C28: with adjust = true, every returned bar is the raw bar transformed by
\* the corporate actions of its id with timestamp < ex_date <= end, newest
\* first, a SPLIT multiplying by 1 / r and scaling the cumulative factor, a
\* DIVIDEND subtracting d * f; bars at or after every ex_date and the volume
\* column are unchanged.
C28_Adjustment ==
    (last_query.called /\ last_query.cfg.adjust)
        => \E raw \in RawFrames(last_query) :
              last_query.res.rows =
                  {ClaimedAdjustment(r, ClaimedActions(r, ca_df, last_query.cfg.end), 1)
                       : r \in raw.rows}

\* an adjusted query returned a bar that a split newer than a dividend
\* applies to, and a bar at the ex_date of an action of its id
C28_Witness ==
    /\ last_query.called
    /\ last_query.cfg.adjust
    /\ \E r \in RowsOf(bars), s \in ca_df, d \in ca_df :
          /\ r.internal_id \in SeqToSet(last_query.iids)
          /\ {s, d} \subseteq ClaimedActions(r, ca_df, last_query.cfg.end)
          /\ s.type = "SPLIT" /\ d.type = "DIVIDEND" /\ d.ex_date < s.ex_date
    /\ \E r \in last_query.res.rows, c \in ca_df :
          c.internal_id = r.internal_id /\ c.ex_date = r.timestamp

(***************************************************************************)
(* Claims about the signal combiner (checked under SpecCB)                 *)
(***************************************************************************)
\* the weights the claim uses: the given ones, or 1 / N for each of N maps
ClaimedWeights(q) ==
    IF q.weights.given THEN q.weights.list
    ELSE [i \in 1..Len(q.signals_list) |-> FDiv(One, Len(q.signals_list))]

\* the sum over the maps, in list order, of weight * value, a map that
\* lacks the id contributing zero
RECURSIVE WeightedSum(_, _, _, _)
WeightedSum(signals_list, weights, iid, n) ==
    IF n = 0 THEN 0
    ELSE FAdd(WeightedSum(signals_list, weights, iid, n - 1),
              IF iid \in Keys(signals_list[n])
              THEN FMul(DictGet(signals_list[n], iid), weights[n])
              ELSE 0)

OfTimeframe(table, tf) == {r \in RowsOf(table) : r.timeframe = tf}

\* the two-minute rows the stored minute bars give when they are written
\* by one add_bars call on an empty store
OneCallAggregates(table) ==
    {OfTimeframe(t, "2min") :
        t \in AddBarsOutcomes({}, OfTimeframe(table, "1min"), <<"2min">>)}

\* every row was written once and the two-minute rows are those of one call
ChunkingInvisible(table) ==
    /\ \A p \in table : p[2] = 1
    /\ OfTimeframe(table, "2min") \in OneCallAggregates(table)

\* C32: with aggregate_to configured, the higher-timeframe bars stored for
\* the windows are the same whether the source bars are written by one
\* add_bars call, by several, or with the platform opened again on the
\* store in between: an add_bars call of bars whose timestamps are not
\* stored yet keeps the stored aggregates equal to those of one call.
C32_ChunkingInvisible ==
    [][(/\ aggregate_to = <<"2min">>
        /\ ChunkingInvisible(bars)
        /\ \E batch \in MinuteBatches :
              /\ \A b \in batch : \A r \in RowsOf(bars) : r.timestamp # b.timestamp
              /\ AddBars(batch))
          => ChunkingInvisible(bars')]_vars

\* a child of order o is due or will be, and o is still ACTIVE
Awaited(o) == Len(orders) >= o /\ is_active(orders[o].state) /\ Pending(o) > 0

\* C34: a failed submission, whether submit_order returns false or raises,
\* does not stop the worker, and every child that becomes due for a parent
\* that is still ACTIVE is eventually submitted.
C34_WorkerSurvives ==
    /\ [](wpc # "dead")
    /\ \A o \in 1..MaxOrders : Awaited(o) ~> ~Awaited(o)

(***************************************************************************)
(* Claims about the scheduler lock                                         *)
(***************************************************************************)
\* the step appends to self.orders or walks it (get_order in cancel_order)
TouchesOrders ==
    \/ Len(orders') # Len(orders)
    \/ \E oid \in 1..MaxOrders : CancelCheck(oid)

\* the step appends to, sorts, reads or replaces self._queue
TouchesQueue == queue' # queue \/ WorkerTake

\* C33: every structural change or traversal of self.orders and of
\* self._queue happens while the scheduler lock is held: a step of the driver
\* that touches the orders list holds the lock, and a step that touches the
\* queue is taken by the thread that holds the lock.
C33_LockDiscipline ==
    [][/\ TouchesOrders => lock = "driver"
       /\ TouchesQueue => lock # "none"]_vars

\* the children of order o that the worker has not finished: in the queue,
\* built but not yet enqueued, or in the batch being fired
Outstanding(o) ==
    LET inQueue == Len(SelectSeq(queue, LAMBDA c : c.parent = o))
        inBatch == Len(SelectSeq(to_fire, LAMBDA c : c.parent = o))
        built == Len(SelectSeq(venq, LAMBDA c : c.parent = o))
    IN built + (IF wpc = "keep" THEN inQueue ELSE inQueue + inBatch)

\* every child is in one place only, and is submitted at most once
TakenOnce ==
    \A o \in 1..Len(orders) :
        /\ Outstanding(o) <= nslices[o]
        /\ subs[o] <= nslices[o]

\* C40: every child is taken from the queue at most once and submitted at
\* most once, also when vwap_execute enqueues while the worker partitions;
\* so the submissions of an order are at most its slice count and its
\* filled_qty never exceeds its quantity.
C40_AtMostOnce ==
    /\ TakenOnce
    /\ \A o \in 1..Len(orders) : orders[o].filled_qty <= orders[o].quantity

(***************************************************************************)
(* Claims about the security master's ids                                  *)
(***************************************************************************)
\* the internal_ids in a security table
IdsOf(df) == {df[i].internal_id : i \in 1..Len(df)}

\* the step is a register_security call that took its id from the counter
\* and wrote a row with it
MintsId ==
    /\ Len(sec_df') = Len(sec_df) + 1
    /\ sm_ret'.internal_id \in {None, 0}

\* C35: an id minted by register_security never equals an internal_id that
\* is already in the security table, also after registrations with an
\* explicit internal_id and after the platform was re-opened on its store.
C35_MintedIdsFresh == [][MintsId => sm_ret'.ret \notin IdsOf(sec_df)]_vars

(***************************************************************************)
(* Claims about concurrent writers of the bars table                       *)
(***************************************************************************)
\* C36: when two threads call add_bars at overlapping times, every bar of
\* both calls is in the bars table once both calls have returned.
C36_NoLostWrites ==
    (\A t \in Writers : wr_pc[t] = "idle") => wr_done \subseteq RowsOf(bars)

(***************************************************************************)
(* Claims about restated source bars                                       *)
(***************************************************************************)
\* the stored source rows of the window of an aggregated row
SourceRows(table, agg, source_tf) ==
    {r \in RowsOf(table) :
        /\ r.internal_id = agg.internal_id
        /\ r.timeframe = source_tf
        /\ r.timestamp >= agg.timestamp
        /\ r.timestamp < agg.timestamp + Minutes(agg.timeframe)}

\* one row per source timestamp: a version no other version is newer than
LatestVersions(rows) ==
    {CHOOSE r \in rows :
        /\ r.timestamp = ts
        /\ \A o \in rows : o.timestamp = ts =>
              o.timestamp_knowledge <= r.timestamp_knowledge
     : ts \in {x.timestamp : x \in rows}}

RECURSIVE SumVolume(_)
SumVolume(rows) ==
    IF rows = {} THEN 0
    ELSE LET r == CHOOSE x \in rows : TRUE IN r.volume + SumVolume(rows \ {r})

\* C37: write-side aggregation counts each source timestamp once: a
\* two-minute bar written by add_bars has the required number of distinct
\* source timestamps in its window, and its volume is the sum over the
\* latest version of each source bar.
C37_DistinctTimestamps ==
    [][\A p \in bars' \ bars :
          p[1].timeframe = "2min" =>
              LET latest == LatestVersions(SourceRows(bars', p[1], "1min"))
              IN /\ Cardinality(latest) >= Minutes("2min") \div Minutes("1min")
                 /\ p[1].volume = SumVolume(latest)]_vars

(***************************************************************************)
(* Claims about the termination of hydration                               *)
(***************************************************************************)
\* C38: _hydrate_features returns for every content of the registry and
\* every request list, also when the declared dependencies form a cycle or
\* name an unregistered feature: no call ends in a RecursionError.
C38_HydrationReturns == h_pc # "error"

(***************************************************************************)
(* Claims about the backtest engine                                        *)
(***************************************************************************)
\* C39: BacktestEngine.run sets status to KILLED only when the portfolio
\* manager's kill switch is set; a check_safety call that returns false
\* because of the rate limit alone does not end the backtest.
C39_KilledOnlyByKillSwitch == bt_status = "KILLED" => killed

====
